---- MODULE Spec2Model ----
(***************************************************************************)
(* Vault cache of plugins/vault-mcp: the task-file parser and serializer,  *)
(* the dual-indexed cache (file map, id index, SQLite rows) with its       *)
(* write-through mutations, and the on-disk files it is kept in step with. *)
(*                                                                         *)
(* File text is modelled as the sequence of its lines, each line already   *)
(* split into the tokens the parser's regular expressions extract: the     *)
(* leading whitespace (tabs, spaces), the checkbox character, the title    *)
(* and the tag tokens <<name, value>> in the order they appear.            *)
(***************************************************************************)
EXTENDS Integers, Sequences, FiniteSets, TLC

\* Python's None (also the result of dict.get on a missing key).
NoneVal == "None"

\* Python truthiness of an Optional[str]: None and "" are falsy.
Truthy(s) == s # NoneVal /\ s # ""

---------------------------------------------------------------------------
(* Ordered dicts (task.tags): a sequence of <<key, value>> with unique keys *)

RECURSIVE DictIndex(_, _, _)
DictIndex(d, k, i) ==
    IF i > Len(d) THEN 0
    ELSE IF d[i][1] = k THEN i
    ELSE DictIndex(d, k, i + 1)

DictHas(d, k) == DictIndex(d, k, 1) # 0

DictGet(d, k) == IF DictHas(d, k) THEN d[DictIndex(d, k, 1)][2] ELSE NoneVal

\* d[k] = v: an existing key keeps its position, a new key goes last.
DictSet(d, k, v) ==
    IF DictHas(d, k)
    THEN [d EXCEPT ![DictIndex(d, k, 1)] = <<k, v>>]
    ELSE Append(d, <<k, v>>)

\* d.pop(k, None)
DictPop(d, k) ==
    IF DictHas(d, k)
    THEN LET j == DictIndex(d, k, 1)
         IN  SubSeq(d, 1, j - 1) \o SubSeq(d, j + 1, Len(d))
    ELSE d

DictKeys(d) == {d[i][1] : i \in 1..Len(d)}

\* A dict built from tag tokens in the order the scan meets them.
RECURSIVE DictFromTokens(_, _)
DictFromTokens(tokens, acc) ==
    IF tokens = <<>> THEN acc
    ELSE DictFromTokens(Tail(tokens), DictSet(acc, Head(tokens)[1], Head(tokens)[2]))

---------------------------------------------------------------------------
(* Lines of a task file                                                    *)

MkLine(kind, tabs, spaces, checkbox, text, tags, level) ==
    [kind |-> kind, tabs |-> tabs, spaces |-> spaces, checkbox |-> checkbox,
     text |-> text, tags |-> tags, level |-> level]

TaskLine(tabs, spaces, checkbox, title, tags) ==
    MkLine("task", tabs, spaces, checkbox, title, tags, 0)
HeadingLine(level, text) == MkLine("heading", 0, 0, "", text, <<>>, level)
NoteLine(tabs, spaces, text) == MkLine("note", tabs, spaces, "", text, <<>>, 0)
BlankLine == MkLine("blank", 0, 0, "", "", <<>>, 0)
FmDelimLine == MkLine("fmdelim", 0, 0, "", "--", <<>>, 0)
OtherLine(text) == MkLine("other", 0, 0, "", text, <<>>, 0)

---------------------------------------------------------------------------
(* models/task.py                                                          *)

MkTask(title, id, status, tags, indent_level, line_number, section, section_level) ==
    [title |-> title, id |-> id, status |-> status, tags |-> tags,
     notes |-> <<>>, children |-> <<>>, indent_level |-> indent_level,
     line_number |-> line_number, section |-> section,
     section_level |-> section_level]

\* Stands for "no task" where a Task object may be held.
NoTask == MkTask("", NoneVal, "", <<>>, 0, 0, NoneVal, 0)

MkSection(heading, level) == [heading |-> heading, level |-> level, tasks |-> <<>>]

MkTree(sections, frontmatter_lines) ==
    [sections |-> sections, frontmatter_lines |-> frontmatter_lines]

EmptyTree == MkTree(<<>>, <<>>)

is_stub(task) == DictHas(task.tags, "stub")

is_blocked(task) == DictHas(task.tags, "blocked")

\* Task.all_tasks over a list of tasks: each task, then its descendants.
RECURSIVE AllOfTasks(_)
AllOfTasks(tasks) ==
    IF tasks = <<>> THEN <<>>
    ELSE <<Head(tasks)>> \o AllOfTasks(Head(tasks).children) \o AllOfTasks(Tail(tasks))

RECURSIVE AllOfSections(_)
AllOfSections(sections) ==
    IF sections = <<>> THEN <<>>
    ELSE AllOfTasks(Head(sections).tasks) \o AllOfSections(Tail(sections))

\* TaskTree.all_tasks
all_tasks(tree) == AllOfSections(tree.sections)

\* The positions of all tasks in all_tasks order.  A position is
\* <<section index, root index, child index, ...>>: what a Python reference
\* to a Task object inside the tree denotes.
RECURSIVE PosOfTasks(_, _, _)
PosOfTasks(tasks, prefix, i) ==
    IF i > Len(tasks) THEN <<>>
    ELSE <<Append(prefix, i)>>
         \o PosOfTasks(tasks[i].children, Append(prefix, i), 1)
         \o PosOfTasks(tasks, prefix, i + 1)

RECURSIVE PosOfSections(_, _)
PosOfSections(sections, s) ==
    IF s > Len(sections) THEN <<>>
    ELSE PosOfTasks(sections[s].tasks, <<s>>, 1) \o PosOfSections(sections, s + 1)

all_positions(tree) == PosOfSections(tree.sections, 1)

RECURSIVE TaskAtIn(_, _)
TaskAtIn(tasks, path) ==
    IF Len(path) = 1 THEN tasks[path[1]]
    ELSE TaskAtIn(tasks[path[1]].children, Tail(path))

\* Dereference a position.
TaskAt(tree, pos) == TaskAtIn(tree.sections[pos[1]].tasks, Tail(pos))

\* Apply Op to the task at a path below a task list (in-place mutation).
RECURSIVE UpdateIn(_, _, _)
UpdateIn(tasks, path, new) ==
    IF Len(path) = 1 THEN [tasks EXCEPT ![path[1]] = new]
    ELSE [tasks EXCEPT ![path[1]].children = UpdateIn(@, Tail(path), new)]

\* The tree with the task at pos replaced by new.
SetTaskAt(tree, pos, new) ==
    [tree EXCEPT !.sections[pos[1]].tasks = UpdateIn(@, Tail(pos), new)]

\* TaskTree.find_by_id: position of the first task with that id, or <<>>.
find_by_id(tree, task_id) ==
    LET ps == all_positions(tree)
        hits == {i \in 1..Len(ps) : TaskAt(tree, ps[i]).id = task_id}
    IN  IF hits = {} THEN <<>>
        ELSE ps[CHOOSE i \in hits : \A j \in hits : i <= j]

\* TaskTree.find_section: index of the first section with that heading, or 0.
find_section(tree, heading) ==
    LET hits == {i \in 1..Len(tree.sections) : tree.sections[i].heading = heading}
    IN  IF hits = {} THEN 0 ELSE CHOOSE i \in hits : \A j \in hits : i <= j

---------------------------------------------------------------------------
(* parsers/task_parser.py                                                  *)

TASK_FILE_NAMES == {"TASKS.md", "01 TASKS.md"}

\* _parse_checkbox: "x"/"X" is done, "/" in-progress, anything else open.
parse_checkbox(char) ==
    IF char \in {"x", "X"} THEN "done"
    ELSE IF char = "/" THEN "in-progress"
    ELSE "open"

\* _indent_level: tabs expand to four columns, columns divide by four.
indent_level(tabs, spaces) == (4 * tabs + spaces) \div 4

\* utils/formatting.py TAG_TO_EMOJI: the tags written as an emoji followed
\* by the value; every other tag is written "#name" or "#name:value".
TAG_TO_EMOJI ==
    [k \in {"id", "due", "scheduled", "created", "completed", "b"} |-> "emoji:" \o k]

IsEmoji(w) == \E k \in DOMAIN TAG_TO_EMOJI : TAG_TO_EMOJI[k] = w
EMOJI_TO_TAG(w) == CHOOSE k \in DOMAIN TAG_TO_EMOJI : TAG_TO_EMOJI[k] = w

\* The tag tokens of a task line.  <<name, value>> stands for the text
\* render_tag(name, value) writes; <<"#", name, value>> stands for an emoji
\* tag an editor spelled as a hashtag ("#id", "#due:d1").
IsHashToken(tok) == Len(tok) = 3 \/ tok[1] \notin DOMAIN TAG_TO_EMOJI
TokenName(tok) == IF Len(tok) = 3 THEN tok[2] ELSE tok[1]
TokenValue(tok) == IF Len(tok) = 3 THEN tok[3] ELSE tok[2]

HashWord(name, value) ==
    IF value = "" THEN "#" \o name ELSE "#" \o name \o ":" \o value

\* The hashtags the word scan can recognise in the texts of the model.
HashVocabulary ==
    {<<k, v>> : k \in {"id", "due", "stub", "estimate"}, v \in {"", "a1", "d1", "4h"}}

IsHash(w) == \E kv \in HashVocabulary : HashWord(kv[1], kv[2]) = w
HashParts(w) == CHOOSE kv \in HashVocabulary : HashWord(kv[1], kv[2]) = w

\* The text of the tokens as its blank-separated words.
RECURSIVE TokenWords(_)
TokenWords(tokens) ==
    IF tokens = <<>> THEN <<>>
    ELSE LET tok == Head(tokens)
         IN  (IF IsHashToken(tok) THEN <<HashWord(TokenName(tok), TokenValue(tok))>>
              ELSE IF tok[2] = "" THEN <<TAG_TO_EMOJI[tok[1]]>>
              ELSE <<TAG_TO_EMOJI[tok[1]], tok[2]>>)
             \o TokenWords(Tail(tokens))

\* re.finditer over the words: an emoji takes the next word as its value
\* whatever that word is, and matches nothing when no word follows; a
\* hashtag is a tag by itself; any other word is skipped.
RECURSIVE ScanWords(_, _, _)
ScanWords(words, i, acc) ==
    IF i > Len(words) THEN acc
    ELSE IF IsEmoji(words[i])
    THEN IF i < Len(words)
         THEN ScanWords(words, i + 2, DictSet(acc, EMOJI_TO_TAG(words[i]), words[i + 1]))
         ELSE ScanWords(words, i + 1, acc)
    ELSE IF IsHash(words[i])
    THEN ScanWords(words, i + 1, DictSet(acc, HashParts(words[i])[1], HashParts(words[i])[2]))
    ELSE ScanWords(words, i + 1, acc)

\* Every emoji of the tokens is followed by its value.
PlainTokens(tokens) ==
    \A i \in 1..Len(tokens) : IsHashToken(tokens[i]) \/ tokens[i][2] # ""

RECURSIVE TokenPairs(_)
TokenPairs(tokens) ==
    IF tokens = <<>> THEN <<>>
    ELSE <<<<TokenName(Head(tokens)), TokenValue(Head(tokens))>>>> \o TokenPairs(Tail(tokens))

\* split_tags on a task line: (title, tags).  The title is the text before
\* the earliest match: an emoji nothing matched stays in it.
split_tags(line) ==
    IF PlainTokens(line.tags)
    THEN <<line.text, DictFromTokens(TokenPairs(line.tags), <<>>)>>
    ELSE LET words == TokenWords(line.tags)
         IN  IF Len(words) = 1
             THEN <<IF line.text = "" THEN words[1] ELSE line.text \o " " \o words[1], <<>>>>
             ELSE <<line.text, ScanWords(words, 1, <<>>)>>

IsBlankLine(line) == line.kind = "blank"

\* First index >= i whose line is not blank, Len + 1 when there is none.
RECURSIVE SkipBlank(_, _)
SkipBlank(lines, i) ==
    IF i > Len(lines) \/ ~IsBlankLine(lines[i]) THEN i ELSE SkipBlank(lines, i + 1)

\* First index >= i holding a "---" line, 0 when there is none.
RECURSIVE FindDelim(_, _)
FindDelim(lines, i) ==
    IF i > Len(lines) THEN 0
    ELSE IF lines[i].kind = "fmdelim" THEN i
    ELSE FindDelim(lines, i + 1)

\* _extract_frontmatter: <<frontmatter_lines, body_start>> (body_start is
\* the 0-based index of the first body line).
extract_frontmatter(lines) ==
    LET i == SkipBlank(lines, 1)
    IN  IF i > Len(lines) \/ lines[i].kind # "fmdelim" THEN <<<<>>, 0>>
        ELSE LET j == FindDelim(lines, i + 1)
             IN  IF j = 0 THEN <<<<>>, 0>>
                 ELSE <<SubSeq(lines, i, j), j>>

\* children.append(task) on the task at a path below a task list.
RECURSIVE AppendChildIn(_, _, _)
AppendChildIn(tasks, path, new) ==
    IF path = <<>> THEN Append(tasks, new)
    ELSE [tasks EXCEPT ![path[1]].children = AppendChildIn(@, Tail(path), new)]

RECURSIVE AppendNoteIn(_, _, _)
AppendNoteIn(tasks, path, note) ==
    IF Len(path) = 1 THEN [tasks EXCEPT ![path[1]].notes = Append(@, note)]
    ELSE [tasks EXCEPT ![path[1]].children = AppendNoteIn(@, Tail(path), note)]

RECURSIVE ChildCountIn(_, _)
ChildCountIn(tasks, path) ==
    IF path = <<>> THEN Len(tasks)
    ELSE ChildCountIn(tasks[path[1]].children, Tail(path))

\* A pop that leaves an entry of the same indent level on the stack.
RECURSIVE PopStackDeeper(_, _)
PopStackDeeper(stack, level) ==
    IF stack # <<>> /\ stack[Len(stack)].indent_level > level
    THEN PopStackDeeper(SubSeq(stack, 1, Len(stack) - 1), level)
    ELSE stack

\* Pop the stack while its top's indent level >= level.
RECURSIVE PopStack(_, _)
PopStack(stack, level) ==
    IF stack # <<>> /\ stack[Len(stack)].indent_level >= level
    THEN PopStack(SubSeq(stack, 1, Len(stack) - 1), level)
    ELSE stack

\* The parser's loop state: the sections so far (the last one is
\* current_section when has_section), and task_stack as the path of each
\* open task below the current section's root list with its indent level.
\* current_task is the top of task_stack: both are set together and cleared
\* together.
ParseInit == [sections |-> <<>>, has_section |-> FALSE, stack |-> <<>>]

ParseHeading(st, line) ==
    [sections |-> Append(st.sections, MkSection(line.text, line.level)),
     has_section |-> TRUE, stack |-> <<>>]

ParseTask(st, line, line_num) ==
    LET tt == split_tags(line)
        cur == IF st.has_section THEN st.sections[Len(st.sections)] ELSE MkSection("", 0)
        task == MkTask(tt[1], DictGet(tt[2], "id"), parse_checkbox(line.checkbox),
                       tt[2], indent_level(line.tabs, line.spaces), line_num,
                       IF st.has_section THEN cur.heading ELSE NoneVal,
                       IF st.has_section THEN cur.level ELSE 0)
        stack == PopStack(st.stack, task.indent_level)
        parent == IF stack = <<>> THEN <<>> ELSE stack[Len(stack)].path
        \* tasks before any heading: implicit section
        secs == IF stack = <<>> /\ ~st.has_section
                THEN Append(st.sections, MkSection("", 0)) ELSE st.sections
        n == Len(secs)
        idx == ChildCountIn(secs[n].tasks, parent) + 1
    IN  [sections |-> [secs EXCEPT ![n].tasks = AppendChildIn(@, parent, task)],
         has_section |-> TRUE,
         stack |-> Append(stack, [path |-> Append(parent, idx),
                                  indent_level |-> task.indent_level])]

\* A bullet without checkbox: a note of current_task when strictly deeper.
ParseNote(st, line) ==
    IF st.stack = <<>> THEN st
    ELSE LET top == st.stack[Len(st.stack)]
             n == Len(st.sections)
         IN  IF indent_level(line.tabs, line.spaces) > top.indent_level
             THEN [st EXCEPT !.sections[n].tasks = AppendNoteIn(@, top.path, line.text)]
             ELSE st

ParseLine(st, line, line_num) ==
    CASE line.kind = "heading" -> ParseHeading(st, line)
      [] line.kind = "task" -> ParseTask(st, line, line_num)
      [] line.kind \in {"note", "fmdelim"} -> ParseNote(st, line)
      [] OTHER -> st

\* The loop over lines[body_start:]; i is 1-based, line_num is i - 1.
RECURSIVE ParseLines(_, _, _)
ParseLines(lines, i, st) ==
    IF i > Len(lines) THEN st
    ELSE ParseLines(lines, i + 1, ParseLine(st, lines[i], i - 1))

parse_content(lines) ==
    LET fm == extract_frontmatter(lines)
    IN  MkTree(ParseLines(lines, fm[2] + 1, ParseInit).sections, fm[1])

StatusCheckbox(status) ==
    IF status = "done" THEN "x" ELSE IF status = "in-progress" THEN "/" ELSE " "

RECURSIVE NoteLines(_, _)
NoteLines(notes, depth) ==
    IF notes = <<>> THEN <<>>
    ELSE <<NoteLine(0, 4 * depth, Head(notes))>> \o NoteLines(Tail(notes), depth)

\* The rendering that leaves the id tag out.
render_tags_without_id(tags) == SelectSeq(tags, LAMBDA kv : kv[1] # "id")

\* utils/formatting.py render_tag: the emoji or the hashtag form, as the
\* token that stands for it.
render_tag(name, value) == <<name, value>>

\* utils/formatting.py render_tags: the dict's items in the dict's order.
render_tags(tags) == [i \in 1..Len(tags) |-> render_tag(tags[i][1], tags[i][2])]

\* _serialize_task over a list of tasks at one depth.  With an empty title
\* and no tag the line written is "- [ ] ", which _parse_task_line does not
\* take for a task.
RECURSIVE SerializeTasks(_, _)
SerializeTasks(tasks, depth) ==
    IF tasks = <<>> THEN <<>>
    ELSE LET t == Head(tasks)
         IN  <<IF t.title = "" /\ t.tags = <<>>
               THEN OtherLine("- [" \o StatusCheckbox(t.status) \o "]")
               ELSE TaskLine(0, 4 * depth, StatusCheckbox(t.status), t.title,
                             render_tags(t.tags))>>
             \o NoteLines(t.notes, depth + 1)
             \o SerializeTasks(t.children, depth + 1)
             \o SerializeTasks(Tail(tasks), depth)

RECURSIVE SerializeSections(_)
SerializeSections(sections) ==
    IF sections = <<>> THEN <<>>
    ELSE LET s == Head(sections)
         IN  (IF s.heading # ""
              THEN <<BlankLine, HeadingLine(s.level, s.heading), BlankLine>>
              ELSE <<>>)
             \o SerializeTasks(s.tasks, 0)
             \o SerializeSections(Tail(sections))

\* "\n".join(lines) read back with splitlines(): one trailing empty line
\* is not a line of the text.
JoinLines(lines) ==
    IF lines # <<>> /\ lines[Len(lines)] = BlankLine
    THEN SubSeq(lines, 1, Len(lines) - 1)
    ELSE lines

\* The text write_file writes for a tree.
serialize(tree) == JoinLines(tree.frontmatter_lines \o SerializeSections(tree.sections))

---------------------------------------------------------------------------
(* The vault on disk and the inputs of the model                           *)

\* Paths relative to the vault root, as their parts.
P1 == <<"efforts", "alpha", "TASKS.md">>
P2 == <<"TASKS.md">>
NotesPath == <<"efforts", "alpha", "NOTES.md">>
TaskPaths == {P1, P2}
AllPaths == TaskPaths \cup {NotesPath}
\* The order in which the start-up walk meets the task files.
WalkOrder == <<P1, P2>>

PathName(p) == p[Len(p)]

\* What secrets.token_hex can return (utils/ids.py), cut down to a few ids.
GenIds == {"g1", "g2", "g3"}

\* date.today().isoformat()
Today == "today"

\* File texts an editor outside the server writes.
ContentA ==
    << HeadingLine(3, "Open"), BlankLine,
       TaskLine(0, 0, " ", "Parent", << <<"id", "e1">>, <<"stub", "">> >>),
       TaskLine(1, 0, "X", "Child", <<>>) >>
ContentB ==
    << TaskLine(0, 0, "/", "Solo", << <<"due", "d1">>, <<"id", "g1">> >>),
       NoteLine(0, 4, "a note") >>
ExternalContents == {ContentA, ContentB}

NoDiskFile == [exists |-> FALSE, content |-> <<>>, mtime |-> 0]

\* Bounds of the model.
MaxEdits == 1
MaxMutations == 1
MaxPolls == 2
MaxTouches == 1
MaxPuts == 2
MaxPollFailures == 1

---------------------------------------------------------------------------
(* State                                                                   *)

VARIABLES
    disk,         \* path -> [exists, content, mtime]: the task files on disk
    clock,        \* the filesystem's time: the mtime of the latest write
    files,        \* VaultCache._files: path -> [tree, mtime] (CachedFile)
    tasks_by_id,  \* VaultCache._tasks_by_id: id -> [pos, path]
    db,           \* the rows of the SQLite tasks table
    lock,         \* owner of VaultCache._lock, or NoneVal
    frame,        \* thread -> the call it is in: position and locals
    initialized,  \* initialize() has returned
    obs,          \* what the reader's call has just returned
    stable,       \* history: the cache as the last completed call left it
    edits,        \* number of external edits so far
    mutations,    \* number of add_task/update_task calls so far
    queue,        \* VaultCache._queue: the refresh requests not yet taken
    enqueued,     \* history: every request ever put on the queue, in order
    worker,       \* the worker thread: position in _worker_loop, item in hand
    watcher,      \* VaultWatcher: _known_files, _efforts_mtime, poll thread
    efforts,      \* VaultCache._efforts: effort name -> status
    effdisk       \* the effort directories on disk: name -> [marker, mtime]

diskVars == <<disk, clock, edits>>
cacheVars == <<files, tasks_by_id, db>>
bgVars == <<queue, enqueued, worker, watcher>>
effVars == <<efforts, effdisk>>
vars == <<disk, clock, files, tasks_by_id, db, lock, frame, initialized, obs,
          stable, edits, mutations, queue, enqueued, worker, watcher, efforts,
          effdisk>>

\* The threads that enter the cache: the tool caller and the refresh worker.
Callers == {"caller"}
Threads == {"caller", "worker"}

\* dict helpers for the maps keyed by path or id
MapHas(m, k) == k \in DOMAIN m
MapSet(m, k, v) == [x \in DOMAIN m \cup {k} |-> IF x = k THEN v ELSE m[x]]
MapPopAll(m, ks) == [x \in DOMAIN m \ ks |-> m[x]]
EmptyMap == [x \in {} |-> NoneVal]

CacheState == [files |-> files, tasks_by_id |-> tasks_by_id, db |-> db]
EmptyCache == [files |-> EmptyMap, tasks_by_id |-> EmptyMap, db |-> {}]

\* What a call returned: "done" (None of a procedure), "task", "None"
\* (not found) or "raised".
Result(kind, task, from_index) == [kind |-> kind, task |-> task, from_index |-> from_index]
NoResult == Result("none", NoTask, FALSE)
DoneResult == Result("done", NoTask, FALSE)

\* The frame of a call.  pc, path, mtime, tree, todo, arg_id, new_task are
\* the position and locals of the code; the rest is history kept for the
\* properties: pre (the cache when the call took the lock, the file when the
\* call began), ext (an external edit hit the path during the call),
\* loaded (its _load_file stored the file), wrote / rewrote (write_file was
\* called by the mutation / by the id back-fill), assigned (the ids the
\* back-fill generated), ret (the result).
IdleFrame ==
    [pc |-> "idle", op |-> "none", path |-> <<>>, mtime |-> 0, tree |-> EmptyTree,
     todo |-> <<>>, arg_id |-> NoneVal, arg_parent |-> NoneVal, new_task |-> NoTask,
     pre |-> [cache |-> EmptyCache, file |-> NoDiskFile],
     ext |-> FALSE, loaded |-> FALSE, wrote |-> FALSE, rewrote |-> FALSE,
     assigned |-> <<>>, ret |-> NoResult, discovered |-> [x \in {} |-> "None"]]

NoObs == [kind |-> "none", arg |-> NoneVal, ids |-> {}, counts |-> <<>>, torn |-> FALSE]

\* The efforts directory: each child directory has or lacks its CLAUDE.md
\* marker, and carries the mtime of its latest entry change.
EffortsPath == <<"efforts">>
EffortNames == {"alpha", "__ideas"}
_SKIP_NAMES == {"__ideas", "dashboard.base"}
_BACKLOG_DIR == "__backlog"

\* A directory is [marker, mtime] and, where it has child directories,
\* dirs: name -> directory.  is_effort_dir of the child n of e.
is_effort_dir(e, n) == e[n].marker

\* sorted(path.iterdir()) over the directory names of the model.
NameOrder == <<"__backlog", "__ideas", "alpha", "old", "sub">>
SortedNames(S) == SelectSeq(NameOrder, LAMBDA n : n \in S)

\* _scan_backlog_dir: the names of the efforts found, in the order found;
\* a child with the marker is an effort and is not descended into.
RECURSIVE ScanBacklogNames(_, _)
ScanBacklogNames(dirs, names) ==
    IF names = <<>> THEN <<>>
    ELSE LET n == Head(names)
         IN  (IF is_effort_dir(dirs, n) THEN <<n>>
              ELSE ScanBacklogNames(dirs[n].dirs, SortedNames(DOMAIN dirs[n].dirs)))
             \o ScanBacklogNames(dirs, Tail(names))

_scan_backlog_dir(d) == ScanBacklogNames(d.dirs, SortedNames(DOMAIN d.dirs))

\* result[effort.name] = effort for each effort of a list.
RECURSIVE SetEach(_, _, _)
SetEach(result, names, status) ==
    IF names = <<>> THEN result
    ELSE SetEach([x \in DOMAIN result \cup {Head(names)} |->
                     IF x = Head(names) THEN status ELSE result[x]],
                 Tail(names), status)

\* scan_efforts: the loop over the sorted children of the efforts root.
RECURSIVE ScanChildren(_, _, _)
ScanChildren(e, names, result) ==
    IF names = <<>> THEN result
    ELSE LET n == Head(names)
         IN  IF n \in _SKIP_NAMES THEN ScanChildren(e, Tail(names), result)
             ELSE IF n = _BACKLOG_DIR
             THEN ScanChildren(e, Tail(names),
                               SetEach(result, _scan_backlog_dir(e[n]), "backlog"))
             ELSE IF is_effort_dir(e, n)
             THEN ScanChildren(e, Tail(names), SetEach(result, <<n>>, "active"))
             ELSE ScanChildren(e, Tail(names), result)

scan_efforts(e) == ScanChildren(e, SortedNames(DOMAIN e), [x \in {} |-> "None"])

\* The queue's sentinel (None), the requests on it, and its discipline.
StopItem == <<NoneVal>>
QueuePutFront(q, item) == <<item>> \o q
QueuePut(q, item) == Append(q, item)
QueueGetLast(q) == [item |-> q[Len(q)], rest |-> SubSeq(q, 1, Len(q) - 1)]
QueueGet(q) == [item |-> Head(q), rest |-> Tail(q)]

\* One cycle of the watcher, as history: what it knew before, what it saw
\* and what it put on the queue.
NoCycle ==
    [ok |-> FALSE, prior |-> EmptyMap, seen |-> EmptyMap, prior_eff |-> 0,
     cur_eff |-> 0, put |-> <<>>]
WatcherOff ==
    [pc |-> "off", known_files |-> EmptyMap, efforts_mtime |-> 0, polls |-> 0,
     failed |-> 0, stop |-> FALSE, last |-> NoCycle]
WorkerOff == [pc |-> "off", item |-> <<>>, log |-> <<>>, raised |-> 0]

Init ==
    /\ disk \in [TaskPaths -> {NoDiskFile} \cup
                    {[exists |-> TRUE, content |-> c, mtime |-> 1] :
                        c \in ExternalContents}]
    /\ clock = 1
    /\ files = EmptyMap
    /\ tasks_by_id = EmptyMap
    /\ db = {}
    /\ lock = NoneVal
    /\ frame = [t \in Threads |-> IdleFrame]
    /\ initialized = FALSE
    /\ obs = NoObs
    /\ stable = EmptyCache
    /\ edits = 0
    /\ mutations = 0
    /\ queue = <<>>
    /\ enqueued = <<>>
    /\ worker = WorkerOff
    /\ watcher = WatcherOff
    /\ efforts = EmptyMap
    /\ effdisk = [n \in EffortNames |-> [marker |-> n = "alpha", mtime |-> 1]]

---------------------------------------------------------------------------
(* cache/vault_cache.py: helpers                                           *)

\* _effort_name_from_path
effort_name_from_path(file_path) ==
    IF Len(file_path) >= 2 /\ file_path[1] = "efforts"
    THEN LET parts == Tail(file_path)
         IN  IF parts[1] = "__backlog" /\ Len(parts) > 1 THEN parts[2] ELSE parts[1]
    ELSE NoneVal

\* utils/dates.py duration_to_minutes on the estimates the model uses;
\* 0 stands for None (SQL NULL).
duration_to_minutes(s) ==
    CASE s = "2h" -> 120
      [] s = "30m" -> 30
      [] OTHER -> 0

\* _task_to_row
task_to_row(task, file_path, parent_id) ==
    [id |-> IF Truthy(task.id) THEN task.id ELSE "",
     title |-> task.title,
     status |-> task.status,
     file_path |-> file_path,
     effort_name |-> effort_name_from_path(file_path),
     section |-> task.section,
     indent_level |-> task.indent_level,
     due_date |-> DictGet(task.tags, "due"),
     scheduled_date |-> DictGet(task.tags, "scheduled"),
     created_date |-> DictGet(task.tags, "created"),
     completed_date |-> DictGet(task.tags, "completed"),
     is_stub |-> IF is_stub(task) THEN 1 ELSE 0,
     has_blockers |-> IF is_blocked(task) THEN 1 ELSE 0,
     estimate_minutes |-> duration_to_minutes(DictGet(task.tags, "estimate")),
     parent_id |-> parent_id]

\* INSERT OR REPLACE INTO tasks: id is the primary key.
DbInsert(rows, row) == {r \in rows : r.id # row.id} \cup {row}

\* DELETE FROM tasks WHERE file_path = ?
DbDeleteFile(rows, file_path) == {r \in rows : r.file_path # file_path}

\* _insert_tasks_recursive
RECURSIVE insert_tasks_recursive(_, _, _, _)
insert_tasks_recursive(rows, tasks, file_path, parent_id) ==
    IF tasks = <<>> THEN rows
    ELSE LET t == Head(tasks)
             r1 == DbInsert(rows, task_to_row(t, file_path, parent_id))
             r2 == insert_tasks_recursive(r1, t.children, file_path, t.id)
         IN  insert_tasks_recursive(r2, Tail(tasks), file_path, parent_id)

RECURSIVE InsertSections(_, _, _)
InsertSections(rows, sections, file_path) ==
    IF sections = <<>> THEN rows
    ELSE InsertSections(insert_tasks_recursive(rows, Head(sections).tasks, file_path, NoneVal),
                        Tail(sections), file_path)

\* The ids (truthy ones) of the tasks of a tree.
TreeIds(tree) ==
    LET ts == all_tasks(tree)
    IN  {ts[i].id : i \in {j \in 1..Len(ts) : Truthy(ts[j].id)}}

\* _upsert_file, "Remove old entries for this file": the id index after it.
RemoveOldIds(tbi, fs, path) ==
    IF MapHas(fs, path) THEN MapPopAll(tbi, TreeIds(fs[path].tree)) ELSE tbi

RemoveOldRows(rows, fs, path) ==
    IF MapHas(fs, path) THEN DbDeleteFile(rows, path) ELSE rows

\* _upsert_file: existing_ids before the first id is generated.
ExistingIds(tbi, tree) == DOMAIN tbi \cup TreeIds(tree)

\* The positions of the tasks that lack an id, in all_tasks order.
NeedPositions(tree) ==
    SelectSeq(all_positions(tree), LAMBDA pos : ~Truthy(TaskAt(tree, pos).id))

\* The outcomes of the generate-until-unused loop run once per task that
\* lacks an id: the i-th such task gets ids[i], an id outside existing_ids
\* and outside the ids given to the tasks before it.
BackfillChoices(n, existing) ==
    {ids \in [1..n -> GenIds \ existing] :
        \A i, j \in 1..n : i # j => ids[i] # ids[j]}

RECURSIVE AssignIds(_, _, _, _)
AssignIds(tree, need, ids, i) ==
    IF i > Len(need) THEN tree
    ELSE LET t == TaskAt(tree, need[i])
             t2 == [t EXCEPT !.id = ids[i], !.tags = DictSet(@, "id", ids[i])]
         IN  AssignIds(SetTaskAt(tree, need[i], t2), need, ids, i + 1)

\* _upsert_file: self._tasks_by_id[task.id] = (task, path) for each task.
RECURSIVE IndexPositions(_, _, _, _, _)
IndexPositions(tbi, tree, ps, path, i) ==
    IF i > Len(ps) THEN tbi
    ELSE IndexPositions(MapSet(tbi, TaskAt(tree, ps[i]).id, [pos |-> ps[i], path |-> path]),
                        tree, ps, path, i + 1)

IndexTree(tbi, tree, path) == IndexPositions(tbi, tree, all_positions(tree), path, 1)

\* The task an id-index entry refers to.
EntryTask(fs, entry) == TaskAt(fs[entry.path].tree, entry.pos)


---------------------------------------------------------------------------
(* The lock, and how a call ends                                           *)

\* The lock that does not exclude anybody.
CanAcquireUnlocked(t) == TRUE

\* threading.RLock: free, or already held by the same thread.
CanAcquire(t) == lock = NoneVal \/ lock = t

\* What add_task and update_task return after the reload, looked up in the
\* id index as it is then.
ReturnValue(f, fs, tbi) ==
    CASE f.op = "add" ->
            IF MapHas(tbi, f.arg_id)
            THEN Result("task", EntryTask(fs, tbi[f.arg_id]), TRUE)
            ELSE Result("task", f.new_task, FALSE)
      [] f.op = "update" ->
            IF MapHas(tbi, f.arg_id)
            THEN Result("task", EntryTask(fs, tbi[f.arg_id]), TRUE)
            ELSE Result("None", NoTask, FALSE)
      [] OTHER -> DoneResult

\* _load_file has returned (ok: the file was stored; ~ok: an exception was
\* caught and logged).  The full scan goes on to its next file; every other
\* call returns and leaves the "with self._lock" block.
EndLoad(t, ok) ==
    IF frame[t].op = "init"
    THEN /\ frame' = [frame EXCEPT ![t].pc = "scan", ![t].loaded = ok,
                                   ![t].tree = EmptyTree]
         /\ UNCHANGED <<lock, stable>>
    ELSE /\ frame' = [frame EXCEPT ![t].pc = "done", ![t].loaded = ok,
                                   ![t].tree = EmptyTree,
                                   ![t].ret = ReturnValue(frame[t], files', tasks_by_id')]
         /\ lock' = NoneVal
         /\ stable' = CacheState'

\* The caller has its result: the thread is free for the next call.
Return(t) ==
    /\ UNCHANGED <<bgVars, effVars>>
    /\ frame[t].pc = "done"
    /\ frame' = [frame EXCEPT ![t] = IdleFrame]
    /\ obs' = NoObs
    /\ UNCHANGED <<diskVars, cacheVars, lock, initialized, stable, mutations>>

---------------------------------------------------------------------------
(* The environment: editors outside the server                             *)

\* A call on path p, in progress or just finished, is marked as having an
\* external edit of its file since it began.
MarkExternal(p) ==
    [t \in Threads |->
        IF frame[t].pc # "idle" /\ frame[t].path = p
        THEN [frame[t] EXCEPT !.ext = TRUE] ELSE frame[t]]

\* An editor saves the file at p with the text c.
ExternalWriteTo(p, c) ==
    /\ UNCHANGED <<bgVars, effVars>>
    /\ disk' = [disk EXCEPT ![p] = [exists |-> TRUE, content |-> c, mtime |-> clock + 1]]
    /\ clock' = clock + 1
    /\ edits' = edits + 1
    /\ frame' = MarkExternal(p)
    /\ obs' = NoObs
    /\ UNCHANGED <<cacheVars, lock, initialized, stable, mutations>>

ExternalWrite(p, c) ==
    /\ edits < MaxEdits
    /\ ExternalWriteTo(p, c)

\* Somebody creates or removes the CLAUDE.md marker of an effort directory.
ExternalEffortEdit(n) ==
    /\ edits < MaxEdits
    /\ effdisk' = [effdisk EXCEPT ![n] = [marker |-> ~effdisk[n].marker,
                                          mtime |-> clock + 1]]
    /\ clock' = clock + 1
    /\ edits' = edits + 1
    /\ frame' = MarkExternal(EffortsPath)
    /\ obs' = NoObs
    /\ UNCHANGED <<disk, cacheVars, lock, initialized, stable, mutations, bgVars,
                   efforts>>

\* While the watcher runs somebody saves a file again (the same content, a
\* newer mtime) or restores its timestamp (an older mtime).
ExternalTouch(p, newer) ==
    /\ watcher.pc = "waiting"
    /\ disk[p].exists
    /\ edits < MaxEdits + MaxTouches
    /\ IF newer
       THEN /\ disk' = [disk EXCEPT ![p].mtime = clock + 1]
            /\ clock' = clock + 1
       ELSE /\ disk' = [disk EXCEPT ![p].mtime = disk[p].mtime - 1]
            /\ clock' = clock
    /\ edits' = edits + 1
    /\ frame' = MarkExternal(p)
    /\ obs' = NoObs
    /\ UNCHANGED <<cacheVars, lock, initialized, stable, mutations, bgVars,
                   effVars>>

\* Somebody removes the file at p.
ExternalDeleteOf(p) ==
    /\ UNCHANGED <<bgVars, effVars>>
    /\ disk[p].exists
    /\ disk' = [disk EXCEPT ![p] = NoDiskFile]
    /\ edits' = edits + 1
    /\ frame' = MarkExternal(p)
    /\ obs' = NoObs
    /\ UNCHANGED <<clock, cacheVars, lock, initialized, stable, mutations>>

ExternalDelete(p) ==
    /\ edits < MaxEdits
    /\ ExternalDeleteOf(p)

---------------------------------------------------------------------------
(* write_file and _load_file / _upsert_file, step by step                  *)

\* write_file(path, tree): the whole file is replaced.
WrittenDisk(path, tree) ==
    [disk EXCEPT ![path] = [exists |-> TRUE, content |-> serialize(tree),
                            mtime |-> clock + 1]]

\* A failed load that has deleted the rows of the file, as _upsert_file
\* does before it stores the new ones.
LoadFailureDropsRows(t) ==
    /\ db' = {r \in db : r.file_path # frame[t].path}
    /\ UNCHANGED <<files, tasks_by_id>>
    /\ EndLoad(t, FALSE)

\* _load_file: "except Exception: log.exception(...)" when stat or
\* parse_file raised: _upsert_file has not been called.
LoadFailure(t) ==
    /\ UNCHANGED cacheVars
    /\ EndLoad(t, FALSE)

\* _load_file: mtime = path.stat().st_mtime
LoadStat(t) ==
    /\ UNCHANGED <<bgVars, effVars>>
    /\ frame[t].pc = "load_stat"
    /\ obs' = NoObs
    /\ UNCHANGED <<diskVars, initialized, mutations>>
    /\ IF disk[frame[t].path].exists
       THEN /\ frame' = [frame EXCEPT ![t].pc = "load_read",
                                      ![t].mtime = disk[frame[t].path].mtime]
            /\ UNCHANGED <<cacheVars, lock, stable>>
       ELSE LoadFailure(t)

\* _upsert_file, "Store new": self._files[path] = cached
StoredFiles(fs, path, tree, mtime) == MapSet(fs, path, [tree |-> tree, mtime |-> mtime])

\* _load_file: tree = parse_file(path), then _upsert_file up to the
\* write-back: the old entries of the path are removed and the tasks that
\* lack an id are given one.  Without a write-back the file is stored and
\* indexed in the same step.
LoadRead(t) ==
    /\ UNCHANGED <<bgVars, effVars>>
    /\ frame[t].pc = "load_read"
    /\ obs' = NoObs
    /\ UNCHANGED <<diskVars, initialized, mutations>>
    /\ LET path == frame[t].path IN
       IF ~disk[path].exists
       THEN LoadFailure(t)
       ELSE LET parsed == parse_content(disk[path].content)
                tbi1 == RemoveOldIds(tasks_by_id, files, path)
                rows1 == RemoveOldRows(db, files, path)
                need == NeedPositions(parsed)
            IN  \E ids \in BackfillChoices(Len(need), ExistingIds(tbi1, parsed)) :
                  LET tree == AssignIds(parsed, need, ids, 1) IN
                  IF need # <<>>
                  THEN /\ tasks_by_id' = tbi1
                       /\ db' = rows1
                       /\ files' = files
                       /\ frame' = [frame EXCEPT ![t].pc = "upsert_write",
                                                 ![t].tree = tree,
                                                 ![t].assigned = ids]
                       /\ UNCHANGED <<lock, stable>>
                  ELSE /\ files' = StoredFiles(files, path, tree, frame[t].mtime)
                       /\ tasks_by_id' = IndexTree(tbi1, tree, path)
                       /\ db' = InsertSections(rows1, tree.sections, path)
                       /\ EndLoad(t, TRUE)

\* _upsert_file: write_file(path, cached.tree)
UpsertWrite(t) ==
    /\ UNCHANGED <<bgVars, effVars>>
    /\ frame[t].pc = "upsert_write"
    /\ disk' = WrittenDisk(frame[t].path, frame[t].tree)
    /\ clock' = clock + 1
    /\ frame' = [frame EXCEPT ![t].pc = "upsert_store", ![t].rewrote = TRUE]
    /\ obs' = NoObs
    /\ UNCHANGED <<edits, cacheVars, lock, initialized, stable, mutations>>

\* The modification time read before the write-back instead of after it.
StatBeforeWrite(f, d) == f.mtime

\* _upsert_file: the mtime recorded after a write-back
StatAfterWrite(f, d) == d.mtime

\* _upsert_file: cached.mtime = path.stat().st_mtime, then store and index.
UpsertStore(t) ==
    /\ UNCHANGED <<bgVars, effVars>>
    /\ frame[t].pc = "upsert_store"
    /\ obs' = NoObs
    /\ UNCHANGED <<diskVars, initialized, mutations>>
    /\ LET path == frame[t].path
           tree == frame[t].tree
       IN  IF ~disk[path].exists
           THEN /\ UNCHANGED cacheVars
                /\ EndLoad(t, FALSE)
           ELSE /\ files' = StoredFiles(files, path, tree, StatAfterWrite(frame[t], disk[path]))
                /\ tasks_by_id' = IndexTree(tasks_by_id, tree, path)
                /\ db' = InsertSections(db, tree.sections, path)
                /\ EndLoad(t, TRUE)

---------------------------------------------------------------------------
(* initialize                                                              *)

StartFrame(op, pc, path) ==
    [IdleFrame EXCEPT !.op = op, !.pc = pc, !.path = path]

\* initialize(): the full scan starts (single-threaded start-up).
Initialize(t) ==
    /\ UNCHANGED <<bgVars, effVars>>
    /\ ~initialized
    /\ frame[t].pc = "idle"
    /\ frame' = [frame EXCEPT ![t] = [StartFrame("init", "scan", <<>>) EXCEPT !.todo = WalkOrder]]
    /\ obs' = NoObs
    /\ UNCHANGED <<diskVars, cacheVars, lock, initialized, stable, mutations>>

\* _full_scan: the next file of the walk is loaded (no lock is taken);
\* after the last one initialize returns.
ScanNext(t) ==
    /\ UNCHANGED <<bgVars, effdisk>>
    /\ frame[t].pc = "scan"
    /\ obs' = NoObs
    /\ IF frame[t].todo = <<>>
       THEN /\ initialized' = TRUE
            /\ frame' = [frame EXCEPT ![t] = [StartFrame("init", "done", <<>>) EXCEPT !.ret = DoneResult]]
            /\ stable' = CacheState
            /\ efforts' = scan_efforts(effdisk)
       ELSE /\ efforts' = efforts
            /\ frame' = [frame EXCEPT
                           ![t].todo = Tail(@),
                           ![t].path = Head(frame[t].todo),
                           ![t].ext = FALSE,
                           ![t].rewrote = FALSE,
                           ![t].assigned = <<>>,
                           ![t].pc = IF disk[Head(frame[t].todo)].exists
                                     THEN "load_stat" ELSE "scan"]
            /\ UNCHANGED <<initialized, stable>>
    /\ UNCHANGED <<diskVars, cacheVars, lock, mutations>>

---------------------------------------------------------------------------
(* refresh_file and _remove_file                                           *)

\* refresh_file(path), the part before the lock: the name check, the
\* existence check and the stat.
RefreshBegin(t, path) ==
    /\ UNCHANGED <<bgVars, effVars>>
    /\ initialized
    /\ frame[t].pc = "idle"
    /\ frame' = [frame EXCEPT ![t] =
          IF path = EffortsPath
          THEN [StartFrame("efforts", "ef_store", path)
                   EXCEPT !.discovered = scan_efforts(effdisk),
                          !.pre.cache = CacheState]
          ELSE IF PathName(path) \notin TASK_FILE_NAMES
          THEN [StartFrame("refresh", "done", path) EXCEPT !.ret = DoneResult]
          ELSE [StartFrame("refresh", IF disk[path].exists THEN "rf_lock" ELSE "rf_remove", path)
                   EXCEPT !.mtime = disk[path].mtime, !.pre.file = disk[path]]]
    /\ obs' = NoObs
    /\ UNCHANGED <<diskVars, cacheVars, lock, initialized, stable, mutations>>

\* refresh_efforts, under the lock: the effort map is replaced by what the
\* scan (made before the lock) discovered.
EffortsStore(t) ==
    /\ frame[t].pc = "ef_store"
    /\ CanAcquire(t)
    /\ efforts' = frame[t].discovered
    /\ frame' = [frame EXCEPT ![t].pc = "done", ![t].ret = DoneResult]
    /\ obs' = NoObs
    /\ UNCHANGED <<diskVars, cacheVars, lock, initialized, stable, mutations,
                   bgVars, effdisk>>

\* The removal that leaves the id index alone.
RemovedIdsKept(tbi, fs, path) == tbi

\* _remove_file: the id index without the tasks of the removed file.
RemovedIds(tbi, fs, path) == MapPopAll(tbi, TreeIds(fs[path].tree))

\* _remove_file(path), under the lock.
RefreshRemove(t) ==
    /\ UNCHANGED <<bgVars, effVars>>
    /\ frame[t].pc = "rf_remove"
    /\ CanAcquire(t)
    /\ LET path == frame[t].path IN
       IF MapHas(files, path)
       THEN /\ files' = MapPopAll(files, {path})
            /\ tasks_by_id' = RemovedIds(tasks_by_id, files, path)
            /\ db' = DbDeleteFile(db, path)
       ELSE UNCHANGED cacheVars
    /\ frame' = [frame EXCEPT ![t].pc = "done", ![t].ret = DoneResult,
                              ![t].pre.cache = CacheState]
    /\ lock' = NoneVal
    /\ stable' = CacheState'
    /\ obs' = NoObs
    /\ UNCHANGED <<diskVars, initialized, mutations>>

\* The refresh that never looks at the modification time.
UpToDateAlways(fs, path, mtime) == MapHas(fs, path)

\* The refresh that reloads a file whose modification time is the recorded
\* one.
UpToDateIfOlder(fs, path, mtime) == MapHas(fs, path) /\ fs[path].mtime > mtime

\* refresh_file: whether the cached file is already up to date.
UpToDate(fs, path, mtime) == MapHas(fs, path) /\ fs[path].mtime >= mtime

\* refresh_file: "with self._lock": return when up to date, else _load_file.
RefreshLock(t) ==
    /\ UNCHANGED <<bgVars, effVars>>
    /\ frame[t].pc = "rf_lock"
    /\ CanAcquire(t)
    /\ IF UpToDate(files, frame[t].path, frame[t].mtime)
       THEN /\ frame' = [frame EXCEPT ![t].pc = "done", ![t].ret = DoneResult,
                                      ![t].pre.cache = CacheState]
            /\ UNCHANGED lock
       ELSE /\ frame' = [frame EXCEPT ![t].pc = "load_stat", ![t].pre.cache = CacheState]
            /\ lock' = t
    /\ obs' = NoObs
    /\ UNCHANGED <<diskVars, cacheVars, initialized, stable, mutations>>

---------------------------------------------------------------------------
(* add_task                                                                *)

Absent == "<absent>"

\* The arguments add_task is called with (besides the file).
AddInputs ==
    { [title |-> "New", section |-> NoneVal, status |-> "open", tags |-> <<>>, parent_id |-> NoneVal],
      [title |-> "New", section |-> "Later", status |-> "open", tags |-> <<>>, parent_id |-> NoneVal],
      [title |-> "Sub", section |-> NoneVal, status |-> "open", tags |-> <<>>, parent_id |-> "e1"],
      [title |-> "Sub", section |-> NoneVal, status |-> "open", tags |-> <<>>, parent_id |-> "zz"] }

\* add_task: all_tags
NewTaskTags(tags, new_id) ==
    LET t1 == DictSet(DictSet(tags, "id", new_id), "created", Today)
    IN  IF DictHas(t1, "stub") THEN t1 ELSE DictSet(t1, "stub", "")

\* add_task with parent_id: the result is <<tree, new_task>>.
AddUnderParent(tree, new_task, parent_id) ==
    LET pos == find_by_id(tree, parent_id) IN
    IF pos = <<>> THEN <<tree, new_task>>
    ELSE LET parent == TaskAt(tree, pos)
             nt == [new_task EXCEPT !.indent_level = parent.indent_level + 1,
                                    !.section = parent.section,
                                    !.section_level = parent.section_level]
             p2 == [parent EXCEPT !.children = Append(@, nt),
                                  !.tags = DictPop(@, "stub")]
         IN  <<SetTaskAt(tree, pos, p2), nt>>

\* add_task without parent_id: resolve or create the target section.
AddToSection(tree, new_task, section) ==
    LET found == IF Truthy(section) THEN find_section(tree, section)
                 ELSE IF tree.sections # <<>> THEN 1 ELSE 0
        secs == IF found # 0 THEN tree.sections
                ELSE Append(tree.sections,
                            MkSection(IF Truthy(section) THEN section ELSE "Open", 3))
        idx == IF found # 0 THEN found ELSE Len(secs)
        nt == [new_task EXCEPT !.section = secs[idx].heading,
                               !.section_level = secs[idx].level]
    IN  <<[tree EXCEPT !.sections = [secs EXCEPT ![idx].tasks = Append(@, nt)]], nt>>

AddToTree(tree, new_task, section, parent_id) ==
    IF Truthy(parent_id) THEN AddUnderParent(tree, new_task, parent_id)
    ELSE AddToSection(tree, new_task, section)

\* add_task's id loop: the ids it can end with.
NewIdChoices(tbi) == GenIds \ DOMAIN tbi

\* add_task from the generated id new_id up to write_file: the cached tree
\* (a new empty one when the file is not cached) is mutated under the lock.
AddTaskWith(t, file_path, inp, new_id) ==
    /\ UNCHANGED <<bgVars, effVars>>
    /\ LET new_task == MkTask(inp.title, new_id, inp.status,
                              NewTaskTags(inp.tags, new_id), 0, 0, NoneVal, 0)
           tree == IF MapHas(files, file_path) THEN files[file_path].tree ELSE EmptyTree
           mtime == IF MapHas(files, file_path) THEN files[file_path].mtime ELSE 0
           res == AddToTree(tree, new_task, inp.section, inp.parent_id)
       IN  /\ files' = MapSet(files, file_path, [tree |-> res[1], mtime |-> mtime])
           /\ frame' = [frame EXCEPT ![t] =
                  [StartFrame("add", "mut_write", file_path) EXCEPT
                      !.arg_id = new_id, !.arg_parent = inp.parent_id,
                      !.new_task = res[2],
                      !.pre = [cache |-> CacheState, file |-> disk[file_path]]]]
    /\ lock' = t
    /\ mutations' = mutations + 1
    /\ obs' = NoObs
    /\ UNCHANGED <<diskVars, tasks_by_id, db, initialized, stable>>

\* add_task up to write_file, the id loop taken as one step that ends with
\* an id outside the index.
AddTaskBegin(t, file_path, inp) ==
    /\ initialized
    /\ frame[t].pc = "idle"
    /\ mutations < MaxMutations
    /\ CanAcquire(t)
    /\ \E new_id \in NewIdChoices(tasks_by_id) : AddTaskWith(t, file_path, inp, new_id)

\* add_task / update_task: write_file(file_path, tree), then _load_file.
MutationWrite(t) ==
    /\ UNCHANGED <<bgVars, effVars>>
    /\ frame[t].pc = "mut_write"
    /\ disk' = WrittenDisk(frame[t].path, files[frame[t].path].tree)
    /\ clock' = clock + 1
    /\ frame' = [frame EXCEPT ![t].pc = "load_stat", ![t].wrote = TRUE]
    /\ obs' = NoObs
    /\ UNCHANGED <<edits, cacheVars, lock, initialized, stable, mutations>>

---------------------------------------------------------------------------
(* update_task                                                             *)

\* ",".join(ids) and value.split(",") on the blocker lists the model uses.
JoinIds(ids) ==
    CASE ids = <<>> -> ""
      [] Len(ids) = 1 -> ids[1]
      [] ids = <<"e1", "g1">> -> "e1,g1"
      [] ids = <<"g1", "e1">> -> "g1,e1"
      [] OTHER -> "?"

SplitIds(value) ==
    CASE value = "e1,g1" -> <<"e1", "g1">>
      [] value = "g1,e1" -> <<"g1", "e1">>
      [] OTHER -> <<value>>

\* Task.blocking_ids
blocking_ids(task) ==
    LET value == DictGet(task.tags, "blocked")
    IN  IF Truthy(value) THEN SplitIds(value) ELSE <<>>

\* Task.add_blocker
add_blocker(task, blocker_id) ==
    LET ids == blocking_ids(task)
        ids2 == IF \E i \in 1..Len(ids) : ids[i] = blocker_id THEN ids
                ELSE Append(ids, blocker_id)
    IN  [task EXCEPT !.tags = DictSet(@, "blocked", JoinIds(ids2))]

\* Task.remove_blocker
remove_blocker(task, blocker_id) ==
    LET ids == SelectSeq(blocking_ids(task), LAMBDA i : i # blocker_id)
    IN  IF ids # <<>> THEN [task EXCEPT !.tags = DictSet(@, "blocked", JoinIds(ids))]
        ELSE [task EXCEPT !.tags = DictPop(@, "blocked")]

RECURSIVE AddBlockers(_, _)
AddBlockers(task, bids) ==
    IF bids = <<>> THEN task ELSE AddBlockers(add_blocker(task, Head(bids)), Tail(bids))

RECURSIVE RemoveBlockers(_, _)
RemoveBlockers(task, bids) ==
    IF bids = <<>> THEN task ELSE RemoveBlockers(remove_blocker(task, Head(bids)), Tail(bids))

\* The keyword arguments of update_task; Absent: the key is not passed
\* (an absent list is the empty list: its loop does nothing either way).
NoChanges ==
    [title |-> Absent, status |-> Absent, due |-> Absent, scheduled |-> Absent,
     estimate |-> Absent, blocked_by |-> <<>>, unblock |-> <<>>]

UpdateInputs ==
    { [NoChanges EXCEPT !.title = "Renamed"],
      [NoChanges EXCEPT !.status = "done", !.due = ""] }

UpdateIds == {"e1", "g1", "zz"}

\* A status change that leaves the tags alone.
SetStatusOnly(task, new_status) == [task EXCEPT !.status = new_status]

\* update_task: status, with the completion date kept in step.
SetStatus(task, new_status) ==
    LET t1 == [task EXCEPT !.status = new_status]
    IN  IF new_status = "done" /\ ~DictHas(task.tags, "completed")
        THEN [t1 EXCEPT !.tags = DictSet(@, "completed", Today)]
        ELSE IF new_status # "done"
        THEN [t1 EXCEPT !.tags = DictPop(@, "completed")]
        ELSE t1

\* update_task: a due / scheduled / estimate value, empty meaning "clear".
SetTagField(task, tag_key, val) ==
    IF val = Absent THEN task
    ELSE IF Truthy(val) THEN [task EXCEPT !.tags = DictSet(@, tag_key, val)]
    ELSE [task EXCEPT !.tags = DictPop(@, tag_key)]

\* update_task: the field changes, in the order the code applies them.
ApplyChanges(task, ch) ==
    LET t1 == IF ch.title # Absent THEN [task EXCEPT !.title = ch.title] ELSE task
        t2 == IF ch.status # Absent THEN SetStatus(t1, ch.status) ELSE t1
        t3 == SetTagField(SetTagField(SetTagField(t2, "due", ch.due),
                                      "scheduled", ch.scheduled),
                          "estimate", ch.estimate)
    IN  RemoveBlockers(AddBlockers(t3, ch.blocked_by), ch.unblock)

\* The lookup that raises for an unknown id (KeyError) instead of returning.
NotFoundRaises == Result("raised", NoTask, FALSE)

\* update_task: "if not entry: return None"
NotFound == Result("None", NoTask, FALSE)

\* update_task up to write_file: None for an unknown id; else the task the
\* id index refers to is changed in place, under the lock.
UpdateTaskCall(t, task_id, ch) ==
    /\ UNCHANGED <<bgVars, effVars>>
    /\ initialized
    /\ frame[t].pc = "idle"
    /\ CanAcquire(t)
    /\ obs' = NoObs
    /\ IF ~MapHas(tasks_by_id, task_id)
       THEN /\ frame' = [frame EXCEPT ![t] =
                  [StartFrame("update", "done", <<>>) EXCEPT
                      !.arg_id = task_id, !.pre.cache = CacheState,
                      !.ret = NotFound]]
            /\ UNCHANGED <<files, lock>>
       ELSE LET entry == tasks_by_id[task_id]
                tree == files[entry.path].tree
                task == ApplyChanges(TaskAt(tree, entry.pos), ch)
            IN  /\ files' = [files EXCEPT ![entry.path].tree = SetTaskAt(tree, entry.pos, task)]
                /\ frame' = [frame EXCEPT ![t] =
                      [StartFrame("update", "mut_write", entry.path) EXCEPT
                          !.arg_id = task_id,
                          !.pre = [cache |-> CacheState, file |-> disk[entry.path]]]]
                /\ lock' = t
    /\ UNCHANGED <<diskVars, tasks_by_id, db, initialized, stable>>

UpdateTaskBegin(t, task_id, ch) ==
    /\ mutations < MaxMutations
    /\ mutations' = mutations + 1
    /\ UpdateTaskCall(t, task_id, ch)

\* update_task(task_id, status=new_status), several calls in a row.
MaxStatusUpdates == 2
UpdateStatuses == {"done", "open", "in-progress"}

UpdateStatus(t, task_id, new_status) ==
    /\ mutations < MaxStatusUpdates
    /\ mutations' = mutations + 1
    /\ UpdateTaskCall(t, task_id, [NoChanges EXCEPT !.status = new_status])

NextStatus ==
    \/ \E t \in Callers : Initialize(t)
    \/ \E t \in Callers : ScanNext(t)
    \/ \E t \in Callers : LoadStat(t)
    \/ \E t \in Callers : LoadRead(t)
    \/ \E t \in Callers : UpsertWrite(t)
    \/ \E t \in Callers : UpsertStore(t)
    \/ \E t \in Callers, id \in UpdateIds, st \in UpdateStatuses : UpdateStatus(t, id, st)
    \/ \E t \in Callers : MutationWrite(t)
    \/ \E t \in Callers : Return(t)

SpecStatus == Init /\ [][NextStatus]_vars

---------------------------------------------------------------------------
(* parse_file and write_file by themselves                                 *)

MaxLines == 3
MaxRoundTrips == 2

\* The lines the file texts are made of: headings with and without text, a
\* frontmatter delimiter, tasks at several indents (tab or spaces) with
\* their tags in either order, with an emoji tag spelled as a hashtag,
\* with a blank title, and a note.
InputLines ==
    { HeadingLine(1, "H"), HeadingLine(2, ""), FmDelimLine,
      TaskLine(0, 0, " ", "A", << <<"id", "a1">>, <<"stub", "">> >>),
      TaskLine(1, 0, " ", "A", << <<"stub", "">>, <<"id", "a1">> >>),
      TaskLine(0, 8, "X", "C", <<>>),
      TaskLine(0, 0, " ", "T", << <<"#", "id", "">> >>),
      TaskLine(0, 4, " ", "", <<>>),
      NoteLine(0, 4, "n") }

InputContents == UNION {[1..n -> InputLines] : n \in 0..MaxLines}

InitParse ==
    /\ disk \in {[p \in TaskPaths |->
                    IF p = P2 THEN [exists |-> TRUE, content |-> c, mtime |-> 1]
                    ELSE NoDiskFile] : c \in InputContents}
    /\ clock = 1
    /\ files = EmptyMap
    /\ tasks_by_id = EmptyMap
    /\ db = {}
    /\ lock = NoneVal
    /\ frame = [t \in Threads |-> IdleFrame]
    /\ initialized = FALSE
    /\ obs = NoObs
    /\ stable = EmptyCache
    /\ edits = 0
    /\ mutations = 0
    /\ queue = <<>>
    /\ enqueued = <<>>
    /\ worker = WorkerOff
    /\ watcher = WatcherOff
    /\ efforts = EmptyMap
    /\ effdisk = [n \in EffortNames |-> [marker |-> n = "alpha", mtime |-> 1]]

\* tree = parse_file(path)
ParseFile(t, path) ==
    /\ frame[t].pc = "idle"
    /\ disk[path].exists
    /\ frame' = [frame EXCEPT ![t].pc = "parsed", ![t].op = "parse", ![t].path = path,
                              ![t].tree = parse_content(disk[path].content)]
    /\ UNCHANGED <<diskVars, cacheVars, lock, initialized, obs, stable, mutations,
                   bgVars, effVars>>

\* write_file(path, tree); pre.file keeps the file the tree was parsed from.
WriteFile(t) ==
    /\ frame[t].pc = "parsed"
    /\ mutations < MaxRoundTrips
    /\ disk' = WrittenDisk(frame[t].path, frame[t].tree)
    /\ clock' = clock + 1
    /\ mutations' = mutations + 1
    /\ frame' = [frame EXCEPT ![t].pc = "idle", ![t].wrote = TRUE,
                              ![t].pre.file = disk[frame[t].path]]
    /\ UNCHANGED <<edits, cacheVars, lock, initialized, obs, stable, bgVars, effVars>>

NextParse ==
    \/ \E t \in Callers : ParseFile(t, P2)
    \/ \E t \in Callers : WriteFile(t)

SpecParse == InitParse /\ [][NextParse]_vars

---------------------------------------------------------------------------
(* scan_efforts by itself                                                  *)

MaxBacklogDepth == 2

DirNamesAt(depth) == IF depth = MaxBacklogDepth THEN {"alpha", "old"} ELSE {"sub"}

\* The directories with at most depth levels of child directories.
RECURSIVE DirsOfDepth(_)
DirsOfDepth(depth) ==
    IF depth = 0
    THEN {[marker |-> m, mtime |-> 1, dirs |-> [x \in {} |-> "None"]] : m \in BOOLEAN}
    ELSE LET below == DirsOfDepth(depth - 1)
         IN  {[marker |-> m, mtime |-> 1, dirs |-> ds] :
                 m \in BOOLEAN,
                 ds \in UNION {[ns -> below] : ns \in SUBSET DirNamesAt(depth)}}

\* The efforts directories of the model: alpha and __ideas with or without
\* the marker, and possibly a backlog directory.
EffortTrees ==
    {[n \in {"alpha", "__ideas"} \cup bn |->
         IF n = _BACKLOG_DIR THEN b
         ELSE [marker |-> n \in ms, mtime |-> 1, dirs |-> [x \in {} |-> "None"]]] :
        ms \in SUBSET {"alpha", "__ideas"},
        bn \in {{}, {_BACKLOG_DIR}},
        b \in DirsOfDepth(MaxBacklogDepth)}

InitScan ==
    /\ disk = [p \in TaskPaths |-> NoDiskFile]
    /\ clock = 1
    /\ files = EmptyMap
    /\ tasks_by_id = EmptyMap
    /\ db = {}
    /\ lock = NoneVal
    /\ frame = [t \in Threads |-> IdleFrame]
    /\ initialized = FALSE
    /\ obs = NoObs
    /\ stable = EmptyCache
    /\ edits = 0
    /\ mutations = 0
    /\ queue = <<>>
    /\ enqueued = <<>>
    /\ worker = WorkerOff
    /\ watcher = WatcherOff
    /\ efforts = EmptyMap
    /\ effdisk \in EffortTrees

\* discovered = scan_efforts(efforts_root)
ScanEfforts(t) ==
    /\ frame[t].pc = "idle"
    /\ frame[t].op = "none"
    /\ frame' = [frame EXCEPT ![t].pc = "scanned", ![t].op = "scan",
                              ![t].path = EffortsPath,
                              ![t].discovered = scan_efforts(effdisk)]
    /\ UNCHANGED <<diskVars, cacheVars, lock, initialized, obs, stable, mutations,
                   bgVars, effVars>>

\* The scan's result goes to the caller.
ScanReturn(t) ==
    /\ frame[t].pc = "scanned"
    /\ frame' = [frame EXCEPT ![t].pc = "done", ![t].ret = DoneResult]
    /\ UNCHANGED <<diskVars, cacheVars, lock, initialized, obs, stable, mutations,
                   bgVars, effVars>>

NextScan ==
    \/ \E t \in Callers : ScanEfforts(t)
    \/ \E t \in Callers : ScanReturn(t)

SpecScan == InitScan /\ [][NextScan]_vars

---------------------------------------------------------------------------
(* Readers: query_tasks, get_task, status, under the lock                  *)

Observe(kind, arg, ids, counts) ==
    [kind |-> kind, arg |-> arg, ids |-> ids, counts |-> counts,
     torn |-> CacheState # stable]

ReadIds == {"e1"}

\* get_task(task_id)
GetTask(task_id) ==
    /\ UNCHANGED <<bgVars, effVars>>
    /\ initialized
    /\ CanAcquire("reader")
    /\ obs' = Observe("get_task", task_id,
                      IF MapHas(tasks_by_id, task_id) THEN {task_id} ELSE {}, <<>>)
    /\ UNCHANGED <<diskVars, cacheVars, lock, frame, initialized, stable, mutations>>

\* query_tasks(status=...): SELECT id FROM tasks [WHERE status IN (...)],
\* each row resolved through the id index, all under the lock.
QueryStatuses == {NoneVal, "open"}

MatchingRows(rows, status) ==
    {r \in rows : Truthy(status) => r.status = status}

QueryTasks(status) ==
    /\ UNCHANGED <<bgVars, effVars>>
    /\ initialized
    /\ CanAcquire("reader")
    /\ obs' = Observe("query_tasks", status,
                      {r.id : r \in {x \in MatchingRows(db, status) : MapHas(tasks_by_id, x.id)}},
                      <<>>)
    /\ UNCHANGED <<diskVars, cacheVars, lock, frame, initialized, stable, mutations>>

\* A vault file for the queries: a task with a child that has no id, a
\* grandchild and a second child, and a finished root task.
ContentC ==
    << TaskLine(0, 0, " ", "A", << <<"id", "a1">> >>),
       TaskLine(1, 0, "X", "B", <<>>),
       TaskLine(2, 0, " ", "C", << <<"id", "c1">> >>),
       TaskLine(1, 0, " ", "E", << <<"id", "k1">> >>),
       TaskLine(0, 0, "X", "D", << <<"id", "d1">> >>) >>
QueryContents == {ContentC}
QueryParents == {NoneVal, "a1", "c1", "e1", "g2", "zz"}

\* The rows in the order SELECT yields them (some order).
RECURSIVE RowSeq(_)
RowSeq(rows) ==
    IF rows = {} THEN <<>>
    ELSE LET r == CHOOSE r \in rows : TRUE IN <<r>> \o RowSeq(rows \ {r})

\* WHERE status IN (...) AND parent_id = ?
SelectRows(rows, status, parent_id) ==
    {r \in MatchingRows(rows, status) : Truthy(parent_id) => r.parent_id = parent_id}

\* for row in rows: entry = _tasks_by_id.get(row["id"]); a task of the
\* result is the reference the index holds: the file and the position.
RECURSIVE ResolveRows(_, _)
ResolveRows(rs, tbi) ==
    IF rs = <<>> THEN <<>>
    ELSE (IF MapHas(tbi, Head(rs).id)
          THEN << [id |-> Head(rs).id, path |-> tbi[Head(rs).id].path,
                   pos |-> tbi[Head(rs).id].pos] >>
          ELSE <<>>) \o ResolveRows(Tail(rs), tbi)

\* task.all_tasks()[1:]: the positions below a position, in all_tasks order.
DescendantsOf(tree, pos) ==
    LET IsBelow(q) == Len(q) > Len(pos) /\ SubSeq(q, 1, Len(pos)) = pos
    IN SelectSeq(all_positions(tree), IsBelow)

\* The descendants of every matched task, in the order of the loops.
RECURSIVE Candidates(_, _)
Candidates(matched, fs) ==
    IF matched = <<>> THEN <<>>
    ELSE LET m == Head(matched)
             ds == DescendantsOf(fs[m.path].tree, m.pos)
         IN [i \in 1..Len(ds) |->
                [id |-> TaskAt(fs[m.path].tree, ds[i]).id, path |-> m.path,
                 pos |-> ds[i]]]
            \o Candidates(Tail(matched), fs)

\* if child.id and child.id not in seen_ids: extra.append(child)
RECURSIVE Extras(_, _)
Extras(cands, seen_ids) ==
    IF cands = <<>> THEN <<>>
    ELSE IF Truthy(Head(cands).id) /\ Head(cands).id \notin seen_ids
    THEN <<Head(cands)>> \o Extras(Tail(cands), seen_ids \cup {Head(cands).id})
    ELSE Extras(Tail(cands), seen_ids)

\* matched + extra when include_subtasks.
Expanded(matched, fs) ==
    matched \o Extras(Candidates(matched, fs),
                      {matched[i].id : i \in 1..Len(matched)})

\* The list query_tasks returns.
query_tasks(rows, tbi, fs, status, parent_id, include_subtasks) ==
    LET matched == ResolveRows(RowSeq(SelectRows(rows, status, parent_id)), tbi)
    IN IF include_subtasks THEN Expanded(matched, fs) ELSE matched

\* query_tasks(status=..., parent_id=..., include_subtasks=...), under the
\* lock.
QueryTasksWith(status, parent_id, include_subtasks) ==
    /\ UNCHANGED <<bgVars, effVars>>
    /\ initialized
    /\ CanAcquire("reader")
    /\ obs' = [kind |-> "query",
               arg |-> [status |-> status, parent_id |-> parent_id,
                        include_subtasks |-> include_subtasks],
               ids |-> {}, counts |-> <<>>, torn |-> CacheState # stable,
               tasks |-> query_tasks(db, tasks_by_id, files, status, parent_id,
                                     include_subtasks)]
    /\ UNCHANGED <<diskVars, cacheVars, lock, frame, initialized, stable, mutations>>

\* status()
Status ==
    /\ UNCHANGED <<bgVars, effVars>>
    /\ initialized
    /\ CanAcquire("reader")
    /\ obs' = Observe("status", NoneVal, {},
                      <<Cardinality(DOMAIN files), Cardinality(DOMAIN tasks_by_id)>>)
    /\ UNCHANGED <<diskVars, cacheVars, lock, frame, initialized, stable, mutations>>

---------------------------------------------------------------------------
(* The specification                                                       *)

\* The editors and the calls that change the cache.
Calls ==
    \/ \E p \in TaskPaths, c \in ExternalContents : ExternalWrite(p, c)
    \/ \E p \in TaskPaths : ExternalDelete(p)
    \/ \E t \in Callers : Initialize(t)
    \/ \E t \in Callers : ScanNext(t)
    \/ \E t \in Callers : LoadStat(t)
    \/ \E t \in Callers : LoadRead(t)
    \/ \E t \in Callers : UpsertWrite(t)
    \/ \E t \in Callers : UpsertStore(t)
    \/ \E t \in Callers, p \in AllPaths : RefreshBegin(t, p)
    \/ \E t \in Callers : RefreshRemove(t)
    \/ \E t \in Callers : RefreshLock(t)
    \/ \E t \in Callers, p \in TaskPaths, inp \in AddInputs : AddTaskBegin(t, p, inp)
    \/ \E t \in Callers, id \in UpdateIds, ch \in UpdateInputs : UpdateTaskBegin(t, id, ch)
    \/ \E t \in Callers : MutationWrite(t)
    \/ \E t \in Callers : Return(t)

\* The calls of a concurrent reader.
Reads ==
    \/ \E id \in ReadIds : GetTask(id)
    \/ \E st \in QueryStatuses : QueryTasks(st)
    \/ Status

Next == Calls \/ Reads

Spec == Init /\ [][Next]_vars

---------------------------------------------------------------------------
(* The same program with failing writes                                    *)

\* The write failure caught and logged the way _load_file does, the call
\* going on to its return statement.
WriteFailureSwallowed(f, fs, tbi) == ReturnValue(f, fs, tbi)

\* add_task / update_task: write_file is called outside any try block, so
\* what it raises leaves the method.
WriteFailureOutcome(f, fs, tbi) == Result("raised", NoTask, FALSE)

\* write_file raises inside add_task / update_task (the file is left as it
\* was): nothing catches it, the "with self._lock" block is left and the
\* exception reaches the caller.
MutationWriteFails(t) ==
    /\ UNCHANGED <<bgVars, effVars>>
    /\ frame[t].pc = "mut_write"
    /\ frame' = [frame EXCEPT ![t].pc = "done",
                              ![t].ret = WriteFailureOutcome(frame[t], files, tasks_by_id)]
    /\ lock' = NoneVal
    /\ stable' = CacheState
    /\ obs' = NoObs
    /\ UNCHANGED <<diskVars, cacheVars, initialized, mutations>>

\* write_file raises inside _upsert_file: _load_file catches and logs it.
UpsertWriteFails(t) ==
    /\ UNCHANGED <<bgVars, effVars>>
    /\ frame[t].pc = "upsert_write"
    /\ obs' = NoObs
    /\ UNCHANGED <<diskVars, cacheVars, initialized, mutations>>
    /\ EndLoad(t, FALSE)

NextFault ==
    \/ Calls
    \/ \E t \in Callers : MutationWriteFails(t)
    \/ \E t \in Callers : UpsertWriteFails(t)

SpecFault == Init /\ [][NextFault]_vars

---------------------------------------------------------------------------
(* The same program with files that cannot be read                         *)

\* parse_file raises for a file that is there: read_text fails (permissions,
\* bytes that are not UTF-8).
LoadReadFails(t) ==
    /\ UNCHANGED <<bgVars, effVars>>
    /\ frame[t].pc = "load_read"
    /\ disk[frame[t].path].exists
    /\ obs' = NoObs
    /\ UNCHANGED <<diskVars, initialized, mutations>>
    /\ LoadFailure(t)

NextUnreadable ==
    \/ \E p \in TaskPaths, c \in ExternalContents : ExternalWrite(p, c)
    \/ \E p \in TaskPaths : ExternalDelete(p)
    \/ \E t \in Callers : Initialize(t)
    \/ \E t \in Callers : ScanNext(t)
    \/ \E t \in Callers : LoadStat(t)
    \/ \E t \in Callers : LoadRead(t)
    \/ \E t \in Callers : LoadReadFails(t)
    \/ \E t \in Callers : UpsertWrite(t)
    \/ \E t \in Callers : UpsertStore(t)
    \/ \E t \in Callers, p \in TaskPaths : RefreshBegin(t, p)
    \/ \E t \in Callers : RefreshRemove(t)
    \/ \E t \in Callers : RefreshLock(t)
    \/ \E t \in Callers, id \in UpdateIds, ch \in UpdateInputs : UpdateTaskBegin(t, id, ch)
    \/ \E t \in Callers : MutationWrite(t)
    \/ \E t \in Callers : Return(t)

SpecUnreadable == Init /\ [][NextUnreadable]_vars

---------------------------------------------------------------------------
(* The id loop of add_task, one generated candidate at a time              *)

\* add_task: "with self._lock", existing_ids = the keys of the id index,
\* new_id = generate_task_id()
AddTaskGenerate(t, file_path) ==
    /\ UNCHANGED <<bgVars, effVars>>
    /\ initialized
    /\ frame[t].pc = "idle"
    /\ mutations < MaxMutations
    /\ CanAcquire(t)
    /\ \E c \in GenIds :
         frame' = [frame EXCEPT ![t] =
                      [StartFrame("add", "gen", file_path) EXCEPT !.arg_id = c]]
    /\ lock' = t
    /\ obs' = NoObs
    /\ UNCHANGED <<diskVars, cacheVars, initialized, stable, mutations>>

\* add_task: "while new_id in existing_ids: new_id = generate_task_id()",
\* one turn of the loop.
AddTaskRetry(t) ==
    /\ UNCHANGED <<bgVars, effVars>>
    /\ frame[t].pc = "gen"
    /\ frame[t].arg_id \in DOMAIN tasks_by_id
    /\ \E c \in GenIds : frame' = [frame EXCEPT ![t].arg_id = c]
    /\ obs' = NoObs
    /\ UNCHANGED <<diskVars, cacheVars, lock, initialized, stable, mutations>>

\* add_task: the loop is left with an id outside existing_ids and the call
\* goes on.
AddTaskGenerated(t, inp) ==
    /\ frame[t].pc = "gen"
    /\ frame[t].arg_id \notin DOMAIN tasks_by_id
    /\ AddTaskWith(t, frame[t].path, inp, frame[t].arg_id)

NextIds ==
    \/ \E t \in Callers : Initialize(t)
    \/ \E t \in Callers : ScanNext(t)
    \/ \E t \in Callers : LoadStat(t)
    \/ \E t \in Callers : LoadRead(t)
    \/ \E t \in Callers : UpsertWrite(t)
    \/ \E t \in Callers : UpsertStore(t)
    \/ \E t \in Callers, p \in TaskPaths : AddTaskGenerate(t, p)
    \/ \E t \in Callers : AddTaskRetry(t)
    \/ \E t \in Callers, inp \in AddInputs : AddTaskGenerated(t, inp)
    \/ \E t \in Callers : MutationWrite(t)
    \/ \E t \in Callers : Return(t)

\* A step of the id loop: another turn, or the exit.
IdLoopStep ==
    \E t \in Callers :
        AddTaskRetry(t) \/ \E inp \in AddInputs : AddTaskGenerated(t, inp)

\* The thread that is in the loop keeps running.
SpecIds == Init /\ [][NextIds]_vars /\ WF_vars(IdLoopStep)

---------------------------------------------------------------------------
(* The background pipeline: the refresh queue, its worker, the watcher     *)

\* start_worker(): the server starts the thread after initialize().
StartWorker ==
    /\ initialized
    /\ worker.pc = "off"
    /\ worker' = [worker EXCEPT !.pc = "get"]
    /\ obs' = NoObs
    /\ UNCHANGED <<diskVars, cacheVars, lock, frame, initialized, stable,
                   mutations, queue, enqueued, watcher, effVars>>

\* _worker_loop tests the item it took against the sentinel.
IsSentinelNever(item) == FALSE
IsSentinel(item) == item = StopItem

\* _worker_loop: item = queue.get(); the sentinel ends the loop.
WorkerGet ==
    /\ worker.pc = "get"
    /\ queue # <<>>
    /\ LET g == QueueGet(queue) IN
         /\ queue' = g.rest
         /\ worker' = [worker EXCEPT
                          !.pc = IF IsSentinel(g.item) THEN "stopped" ELSE "call",
                          !.item = g.item,
                          !.log = Append(@, g.item)]
    /\ obs' = NoObs
    /\ UNCHANGED <<diskVars, cacheVars, lock, frame, initialized, stable,
                   mutations, enqueued, watcher, effVars>>

\* _worker_loop: self.refresh_file(item) is entered.
WorkerRefresh ==
    /\ worker.pc = "call"
    /\ RefreshBegin("worker", worker.item)

\* _worker_loop: refresh_file returned; the loop goes back to queue.get().
WorkerDone ==
    /\ worker.pc = "call"
    /\ frame["worker"].pc = "done"
    /\ frame' = [frame EXCEPT !["worker"] = IdleFrame]
    /\ worker' = [worker EXCEPT !.pc = "get"]
    /\ obs' = NoObs
    /\ UNCHANGED <<diskVars, cacheVars, lock, initialized, stable, mutations,
                   queue, enqueued, watcher, effVars>>

\* _worker_loop: where the thread is after refresh_file raised.
WorkerDiesOnError == "stopped"
WorkerAfterError == "get"

\* A worker that puts the item back on the queue when its refresh raised.
WorkerRaisesAndRetries ==
    /\ worker.pc = "call"
    /\ frame["worker"].pc = "idle"
    /\ worker' = [worker EXCEPT !.pc = WorkerAfterError, !.raised = @ + 1]
    /\ queue' = QueuePut(queue, worker.item)
    /\ obs' = NoObs
    /\ UNCHANGED <<diskVars, cacheVars, lock, frame, initialized, stable,
                   mutations, enqueued, watcher, effVars>>

\* _worker_loop: refresh_file raised (a directory scan or a stat that fails
\* before anything is changed); the exception is logged.
WorkerRaises ==
    /\ worker.pc = "call"
    /\ frame["worker"].pc = "idle"
    /\ worker' = [worker EXCEPT !.pc = WorkerAfterError, !.raised = @ + 1]
    /\ obs' = NoObs
    /\ UNCHANGED <<diskVars, cacheVars, lock, frame, initialized, stable,
                   mutations, queue, enqueued, watcher, effVars>>

\* stop_worker(): the sentinel is put on the queue.
StopWorker ==
    /\ worker.pc # "off"
    /\ \A i \in 1..Len(enqueued) : enqueued[i] # StopItem
    /\ queue' = QueuePut(queue, StopItem)
    /\ enqueued' = Append(enqueued, StopItem)
    /\ obs' = NoObs
    /\ UNCHANGED <<diskVars, cacheVars, lock, frame, initialized, stable,
                   mutations, worker, watcher, effVars>>

\* enqueue_refresh / enqueue_effort_scan, for each item of a cycle in turn.
RECURSIVE EnqueueAll(_, _)
EnqueueAll(q, items) ==
    IF items = <<>> THEN q ELSE EnqueueAll(QueuePut(q, Head(items)), Tail(items))

\* _snapshot_task_files: path -> mtime of every task file found.
_snapshot_task_files(d) ==
    [p \in {p \in DOMAIN d : PathName(p) \in TASK_FILE_NAMES /\ d[p].exists}
        |-> d[p].mtime]

\* _snapshot_efforts_mtime: the latest mtime under the efforts directory.
RECURSIVE MaxOf(_)
MaxOf(S) ==
    IF S = {} THEN 0
    ELSE LET x == CHOOSE x \in S : TRUE
             m == MaxOf(S \ {x})
         IN IF x > m THEN x ELSE m
_snapshot_efforts_mtime(e) == MaxOf({e[n].mtime : n \in DOMAIN e})

\* _check_for_changes: the two comparisons.
NewerOrOlder(mtime, old) == mtime # old
Newer(mtime, old) == mtime > old
EffortSignalAlways(cur, stored) == TRUE
EffortSignalChanged(cur, stored) == cur # stored

\* _check_for_changes: the paths to enqueue, new or modified ones first,
\* then the ones that are gone.
Changed(prior, cur) ==
    LET IsNewOrModified(p) ==
            /\ p \in DOMAIN cur
            /\ IF p \notin DOMAIN prior THEN TRUE ELSE Newer(cur[p], prior[p])
        IsGone(p) == p \in DOMAIN prior /\ p \notin DOMAIN cur
    IN SelectSeq(WalkOrder, IsNewOrModified) \o SelectSeq(WalkOrder, IsGone)

\* VaultWatcher.start(): the snapshots are seeded, the poll thread starts.
WatcherStart ==
    /\ worker.pc # "off"
    /\ watcher.pc = "off"
    /\ watcher' = [watcher EXCEPT
                      !.pc = "waiting",
                      !.known_files = _snapshot_task_files(disk),
                      !.efforts_mtime = _snapshot_efforts_mtime(effdisk)]
    /\ obs' = NoObs
    /\ UNCHANGED <<diskVars, cacheVars, lock, frame, initialized, stable,
                   mutations, queue, enqueued, worker, effVars>>

\* _poll_loop, the test of the stop event after the wait.
StopIgnored(stop) == FALSE
StopSeen(stop) == stop

\* _poll_loop: the wait has timed out and the stop event is not set; the
\* thread goes on to _check_for_changes.
WatcherWakes ==
    /\ watcher.pc = "waiting"
    /\ ~StopSeen(watcher.stop)
    /\ watcher' = [watcher EXCEPT !.pc = "polling"]
    /\ obs' = NoObs
    /\ UNCHANGED <<diskVars, cacheVars, lock, frame, initialized, stable,
                   mutations, queue, enqueued, worker, effVars>>

\* The cycles of the poll thread, up to MaxPolls of them.
WatcherWake ==
    /\ watcher.polls < MaxPolls
    /\ WatcherWakes

\* _poll_loop: the stop event is set (seen by the loop test or after the
\* wait); the thread ends.
WatcherExit ==
    /\ watcher.pc = "waiting"
    /\ watcher.stop
    /\ watcher' = [watcher EXCEPT !.pc = "stopped"]
    /\ obs' = NoObs
    /\ UNCHANGED <<diskVars, cacheVars, lock, frame, initialized, stable,
                   mutations, queue, enqueued, worker, effVars>>

\* One poll cycle: _check_for_changes runs to its end.
Poll ==
    /\ watcher.pc = "polling"
    /\ LET cur == _snapshot_task_files(disk)
           cur_eff == _snapshot_efforts_mtime(effdisk)
           signal == EffortSignalChanged(cur_eff, watcher.efforts_mtime)
           put == Changed(watcher.known_files, cur) \o
                  (IF signal THEN <<EffortsPath>> ELSE <<>>)
       IN /\ queue' = EnqueueAll(queue, put)
          /\ enqueued' = enqueued \o put
          /\ watcher' = [watcher EXCEPT
                            !.pc = "waiting",
                            !.known_files = cur,
                            !.efforts_mtime = IF signal THEN cur_eff ELSE @,
                            !.polls = IF @ < MaxPolls THEN @ + 1 ELSE @,
                            !.last = [ok |-> TRUE, prior |-> watcher.known_files,
                                      seen |-> cur,
                                      prior_eff |-> watcher.efforts_mtime,
                                      cur_eff |-> cur_eff, put |-> put]]
    /\ obs' = NoObs
    /\ UNCHANGED <<diskVars, cacheVars, lock, frame, initialized, stable,
                   mutations, worker, effVars>>

\* _poll_loop: where the thread is after _check_for_changes raised.
PollErrorEndsThread == "stopped"
PollErrorOutcome == "waiting"

\* A poll cycle in which _check_for_changes raises: in the snapshot of the
\* task files (nothing is done), or in the snapshot of the efforts (the
\* task files have been dealt with). _poll_loop logs the exception.
PollFails(stage) ==
    /\ watcher.pc = "polling"
    /\ watcher.failed < MaxPollFailures
    /\ LET cur == _snapshot_task_files(disk)
           put == IF stage = "files" THEN <<>>
                  ELSE Changed(watcher.known_files, cur)
       IN /\ queue' = EnqueueAll(queue, put)
          /\ enqueued' = enqueued \o put
          /\ watcher' = [watcher EXCEPT
                            !.pc = PollErrorOutcome,
                            !.failed = @ + 1,
                            !.known_files = IF stage = "files" THEN @ ELSE cur,
                            !.polls = @ + 1,
                            !.last = [ok |-> FALSE, prior |-> watcher.known_files,
                                      seen |-> cur,
                                      prior_eff |-> watcher.efforts_mtime,
                                      cur_eff |-> watcher.efforts_mtime,
                                      put |-> put]]
    /\ obs' = NoObs
    /\ UNCHANGED <<diskVars, cacheVars, lock, frame, initialized, stable,
                   mutations, worker, effVars>>

\* VaultWatcher.stop(): the stop event is set.
StopWatcher ==
    /\ watcher.pc \in {"waiting", "polling"}
    /\ ~watcher.stop
    /\ watcher' = [watcher EXCEPT !.stop = TRUE]
    /\ obs' = NoObs
    /\ UNCHANGED <<diskVars, cacheVars, lock, frame, initialized, stable,
                   mutations, queue, enqueued, worker, effVars>>

\* The server's shutdown: watcher.stop() has returned (its join may have
\* timed out), then cache.stop_worker() is called.
ShutdownWorker ==
    /\ watcher.stop
    /\ StopWorker

\* The server in the background: start-up, then the watcher and the worker
\* beside the external edits; no tool call is made.
NextBg ==
    \/ \E t \in Callers : Initialize(t)
    \/ \E t \in Callers : ScanNext(t)
    \/ \E t \in Callers : Return(t)
    \/ \E t \in Threads : LoadStat(t)
    \/ \E t \in Threads : LoadRead(t)
    \/ \E t \in Threads : UpsertWrite(t)
    \/ \E t \in Threads : UpsertStore(t)
    \/ RefreshRemove("worker")
    \/ RefreshLock("worker")
    \/ EffortsStore("worker")
    \/ \E p \in TaskPaths, c \in ExternalContents : ExternalWrite(p, c)
    \/ \E p \in TaskPaths : ExternalDelete(p)
    \/ \E n \in EffortNames : ExternalEffortEdit(n)
    \/ \E p \in TaskPaths, newer \in BOOLEAN : ExternalTouch(p, newer)
    \/ StartWorker
    \/ WorkerGet
    \/ WorkerRefresh
    \/ WorkerDone
    \/ WorkerRaises
    \/ ShutdownWorker
    \/ WatcherStart
    \/ WatcherWake
    \/ Poll
    \/ \E stage \in {"files", "efforts"} : PollFails(stage)
    \/ StopWatcher
    \/ WatcherExit

\* The vault the server starts on: one task file, under the effort alpha.
InitBg == Init /\ disk[P1].exists /\ ~disk[P2].exists

SpecBg == InitBg /\ [][NextBg]_vars

\* The watcher alone: nobody takes from the queue.
NextWatch ==
    \/ \E t \in Callers : Initialize(t)
    \/ \E t \in Callers : ScanNext(t)
    \/ \E t \in Callers : Return(t)
    \/ \E t \in Callers : LoadStat(t)
    \/ \E t \in Callers : LoadRead(t)
    \/ \E t \in Callers : UpsertWrite(t)
    \/ \E t \in Callers : UpsertStore(t)
    \/ \E p \in TaskPaths, c \in ExternalContents : ExternalWrite(p, c)
    \/ \E p \in TaskPaths : ExternalDelete(p)
    \/ \E n \in EffortNames : ExternalEffortEdit(n)
    \/ \E p \in TaskPaths, newer \in BOOLEAN : ExternalTouch(p, newer)
    \/ StartWorker
    \/ WatcherStart
    \/ WatcherWake
    \/ Poll
    \/ \E stage \in {"files", "efforts"} : PollFails(stage)
    \/ StopWatcher
    \/ WatcherExit

\* The poll thread is scheduled: a cycle it has begun comes to its end and
\* a set stop event is seen.
SpecWatch == InitBg /\ [][NextWatch]_vars /\ WF_vars(Poll) /\ WF_vars(WatcherExit)

\* The cache under queries: the vault is scanned, a file is rewritten and
\* refreshed, and query_tasks is called with every combination of filters.
NextQuery ==
    \/ \E t \in Callers : Initialize(t)
    \/ \E t \in Callers : ScanNext(t)
    \/ \E t \in Callers : LoadStat(t)
    \/ \E t \in Callers : LoadRead(t)
    \/ \E t \in Callers : UpsertWrite(t)
    \/ \E t \in Callers : UpsertStore(t)
    \/ \E t \in Callers : Return(t)
    \/ \E p \in TaskPaths, c \in QueryContents : ExternalWrite(p, c)
    \/ \E t \in Callers, p \in TaskPaths : RefreshBegin(t, p)
    \/ \E t \in Callers : RefreshRemove(t)
    \/ \E t \in Callers : RefreshLock(t)
    \/ \E st \in QueryStatuses, pid \in QueryParents, inc \in BOOLEAN :
          QueryTasksWith(st, pid, inc)

SpecQuery == Init /\ [][NextQuery]_vars

---------------------------------------------------------------------------
(* Blocking dependencies: the marker, the blocked filter, unblock          *)

\* Vault files with a task that depends on task a1: the dependency written
\* as the marker of TAG_TO_EMOJI followed by the id, and as "#blocked:a1"
\* (there with a task that has no id yet).
ContentBlocked ==
    << TaskLine(0, 0, " ", "Blocked", << <<"id", "k1">>, <<"b", "a1">> >>),
       TaskLine(0, 0, " ", "Free", << <<"id", "f1">> >>) >>
ContentBlockedHash ==
    << TaskLine(0, 0, " ", "Blocked", << <<"id", "k1">>, <<"blocked", "a1">> >>),
       TaskLine(0, 0, " ", "Free", <<>>) >>
BlockedContents == {ContentBlocked, ContentBlockedHash}

InitBlocked ==
    /\ disk \in {[p \in TaskPaths |->
                    IF p = P1 THEN [exists |-> TRUE, content |-> c, mtime |-> 1]
                    ELSE NoDiskFile] : c \in BlockedContents}
    /\ clock = 1
    /\ files = EmptyMap
    /\ tasks_by_id = EmptyMap
    /\ db = {}
    /\ lock = NoneVal
    /\ frame = [t \in Threads |-> IdleFrame]
    /\ initialized = FALSE
    /\ obs = NoObs
    /\ stable = EmptyCache
    /\ edits = 0
    /\ mutations = 0
    /\ queue = <<>>
    /\ enqueued = <<>>
    /\ worker = WorkerOff
    /\ watcher = WatcherOff
    /\ efforts = EmptyMap
    /\ effdisk = [n \in EffortNames |-> [marker |-> n = "alpha", mtime |-> 1]]

\* query_tasks: "if blocked is not None: has_blockers = ?"
BlockedRows(rows, blocked) == {r \in rows : r.has_blockers = (IF blocked THEN 1 ELSE 0)}

\* query_tasks(blocked=...), under the lock.
QueryBlocked(blocked) ==
    /\ UNCHANGED <<bgVars, effVars>>
    /\ initialized
    /\ CanAcquire("reader")
    /\ obs' = Observe("query_blocked", blocked,
                      {r.id : r \in {x \in BlockedRows(db, blocked) : MapHas(tasks_by_id, x.id)}},
                      <<>>)
    /\ UNCHANGED <<diskVars, cacheVars, lock, frame, initialized, stable, mutations>>

\* update_task(task_id, unblock=[...]) and update_task(task_id, blocked_by=[...])
BlockerIds == {"a1"}
BlockedIds == {"k1", "f1"}
BlockerChanges ==
    {[NoChanges EXCEPT !.unblock = <<b>>] : b \in BlockerIds}
        \cup {[NoChanges EXCEPT !.blocked_by = <<b>>] : b \in BlockerIds}

MaxBlockerUpdates == 2

UpdateBlockers(t, task_id, ch) ==
    /\ mutations < MaxBlockerUpdates
    /\ mutations' = mutations + 1
    /\ UpdateTaskCall(t, task_id, ch)

NextBlocked ==
    \/ \E t \in Callers : Initialize(t)
    \/ \E t \in Callers : ScanNext(t)
    \/ \E t \in Callers : LoadStat(t)
    \/ \E t \in Callers : LoadRead(t)
    \/ \E t \in Callers : UpsertWrite(t)
    \/ \E t \in Callers : UpsertStore(t)
    \/ \E b \in BOOLEAN : QueryBlocked(b)
    \/ \E t \in Callers, id \in BlockedIds, ch \in BlockerChanges : UpdateBlockers(t, id, ch)
    \/ \E t \in Callers : MutationWrite(t)
    \/ \E t \in Callers : Return(t)

SpecBlocked == InitBlocked /\ [][NextBlocked]_vars

\* The steps of the worker thread: its loop and the refresh it is in (the
\* read-and-parse step of a load is WorkerLoadRead).
WorkerStep ==
    \/ WorkerGet
    \/ WorkerRefresh
    \/ WorkerDone
    \/ LoadStat("worker")
    \/ UpsertWrite("worker")
    \/ UpsertStore("worker")
    \/ RefreshRemove("worker")
    \/ RefreshLock("worker")
    \/ EffortsStore("worker")

WorkerLoadRead == LoadRead("worker")

\* enqueue_refresh(path), called on the cache directly.
EnqueueRefresh(path) ==
    /\ worker.pc # "off"
    /\ Len(enqueued) < MaxPuts
    /\ queue' = QueuePut(queue, path)
    /\ enqueued' = Append(enqueued, path)
    /\ obs' = NoObs
    /\ UNCHANGED <<diskVars, cacheVars, lock, frame, initialized, stable,
                   mutations, worker, watcher, effVars>>

\* enqueue_effort_scan().
EnqueueEffortScan == EnqueueRefresh(EffortsPath)

\* The queue and its worker alone: requests are put by hand.
NextDrain ==
    \/ \E t \in Callers : Initialize(t)
    \/ \E t \in Callers : ScanNext(t)
    \/ \E t \in Callers : Return(t)
    \/ \E t \in Callers : LoadStat(t)
    \/ \E t \in Callers : LoadRead(t)
    \/ \E t \in Callers : UpsertWrite(t)
    \/ \E t \in Callers : UpsertStore(t)
    \/ \E p \in TaskPaths, c \in ExternalContents : ExternalWrite(p, c)
    \/ \E p \in TaskPaths : EnqueueRefresh(p)
    \/ EnqueueEffortScan
    \/ StartWorker
    \/ StopWorker
    \/ WorkerRaises
    \/ WorkerStep
    \/ WorkerLoadRead

\* The worker thread is scheduled: it is never held back for ever while it
\* has a step to take. The read step is enabled exactly when the thread is
\* at it, and its weak fairness is written out with that condition.
WorkerFairness ==
    /\ WF_vars(WorkerStep)
    /\ \/ []<>(frame["worker"].pc # "load_read")
       \/ []<><<WorkerLoadRead>>_vars

SpecDrain == InitBg /\ [][NextDrain]_vars /\ WorkerFairness

---------------------------------------------------------------------------
(* The pipeline left to itself: edits while the watcher runs, no tool call *)

MaxSyncEdits == 2

\* A task file is created or rewritten (with a newer modification time) or
\* deleted while the watcher is running.
SyncWrite(p, c) ==
    /\ watcher.pc \in {"waiting", "polling"}
    /\ edits < MaxSyncEdits
    /\ ExternalWriteTo(p, c)

SyncDelete(p) ==
    /\ watcher.pc \in {"waiting", "polling"}
    /\ edits < MaxSyncEdits
    /\ ExternalDeleteOf(p)

NextSync ==
    \/ \E t \in Callers : Initialize(t)
    \/ \E t \in Callers : ScanNext(t)
    \/ \E t \in Callers : Return(t)
    \/ \E t \in Callers : LoadStat(t)
    \/ \E t \in Callers : LoadRead(t)
    \/ \E t \in Callers : UpsertWrite(t)
    \/ \E t \in Callers : UpsertStore(t)
    \/ \E p \in TaskPaths, c \in ExternalContents : SyncWrite(p, c)
    \/ \E p \in TaskPaths : SyncDelete(p)
    \/ StartWorker
    \/ WatcherStart
    \/ WatcherWakes
    \/ Poll
    \/ WorkerGet
    \/ WorkerRefresh
    \/ WorkerDone
    \/ LoadStat("worker")
    \/ WorkerLoadRead
    \/ UpsertWrite("worker")
    \/ UpsertStore("worker")
    \/ RefreshRemove("worker")
    \/ RefreshLock("worker")

\* The poll thread and the worker thread are scheduled: the wait of the
\* poll loop times out, a cycle that has begun comes to its end, and the
\* worker takes the steps it can take.
SyncFairness ==
    /\ WF_vars(WatcherWakes)
    /\ WF_vars(Poll)
    /\ WorkerFairness

SpecSync == InitBg /\ [][NextSync]_vars /\ SyncFairness

---------------------------------------------------------------------------
(* The pipeline with refreshes that fail                                   *)

\* One task file is rewritten and deleted while the watcher runs; a refresh
\* of the worker can raise, and the read of its load can fail.
NextRetry ==
    \/ \E t \in Callers : Initialize(t)
    \/ \E t \in Callers : ScanNext(t)
    \/ \E t \in Callers : Return(t)
    \/ \E t \in Callers : LoadStat(t)
    \/ \E t \in Callers : LoadRead(t)
    \/ \E t \in Callers : UpsertWrite(t)
    \/ \E t \in Callers : UpsertStore(t)
    \/ \E c \in ExternalContents : SyncWrite(P1, c)
    \/ SyncDelete(P1)
    \/ StartWorker
    \/ WatcherStart
    \/ WatcherWakes
    \/ Poll
    \/ WorkerGet
    \/ WorkerRefresh
    \/ WorkerDone
    \/ WorkerRaises
    \/ LoadStat("worker")
    \/ WorkerLoadRead
    \/ LoadReadFails("worker")
    \/ UpsertWrite("worker")
    \/ UpsertStore("worker")
    \/ RefreshRemove("worker")
    \/ RefreshLock("worker")

SpecRetry == InitBg /\ [][NextRetry]_vars /\ SyncFairness

---------------------------------------------------------------------------
(* The pipeline beside the tool calls: the cache's own writes              *)

\* add_task and update_task are called while the watcher and the worker
\* run; one file is saved by an editor.
SelfAddInputs == {inp \in AddInputs : inp.title = "New" /\ inp.section = NoneVal}
SelfUpdateInputs == {ch \in UpdateInputs : ch.title = "Renamed"}
SelfUpdateIds == {"e1", "g1"}

SelfAdd(t, inp) ==
    /\ watcher.pc \in {"waiting", "polling"}
    /\ AddTaskBegin(t, P1, inp)

SelfUpdate(t, task_id, ch) ==
    /\ watcher.pc \in {"waiting", "polling"}
    /\ UpdateTaskBegin(t, task_id, ch)

SelfEdit(p, c) ==
    /\ watcher.pc \in {"waiting", "polling"}
    /\ ExternalWrite(p, c)

NextSelf ==
    \/ \E t \in Callers : Initialize(t)
    \/ \E t \in Callers : ScanNext(t)
    \/ \E t \in Callers : Return(t)
    \/ \E t \in Threads : LoadStat(t)
    \/ \E t \in Threads : LoadRead(t)
    \/ \E t \in Threads : UpsertWrite(t)
    \/ \E t \in Threads : UpsertStore(t)
    \/ \E t \in Callers, inp \in SelfAddInputs : SelfAdd(t, inp)
    \/ \E t \in Callers, id \in SelfUpdateIds, ch \in SelfUpdateInputs : SelfUpdate(t, id, ch)
    \/ \E t \in Callers : MutationWrite(t)
    \/ SelfEdit(P1, ContentA)
    \/ StartWorker
    \/ WatcherStart
    \/ WatcherWakes
    \/ Poll
    \/ WorkerGet
    \/ WorkerRefresh
    \/ WorkerDone
    \/ RefreshLock("worker")

SpecSelf == InitBg /\ [][NextSelf]_vars

---------------------------------------------------------------------------
(* api/effort_handlers.py: the effort scan beside the worker's             *)

\* handle_effort_scan: cache.refresh_efforts() on the caller's thread.
handle_effort_scan(t) ==
    /\ watcher.pc \in {"waiting", "polling"}
    /\ RefreshBegin(t, EffortsPath)

\* An effort directory gains or loses its marker while the watcher runs.
RescanEdit(n) ==
    /\ watcher.pc \in {"waiting", "polling"}
    /\ ExternalEffortEdit(n)

NextRescan ==
    \/ \E t \in Callers : Initialize(t)
    \/ \E t \in Callers : ScanNext(t)
    \/ \E t \in Callers : LoadStat(t)
    \/ \E t \in Callers : LoadRead(t)
    \/ \E t \in Callers : UpsertWrite(t)
    \/ \E t \in Callers : UpsertStore(t)
    \/ \E t \in Callers : Return(t)
    \/ \E t \in Callers : handle_effort_scan(t)
    \/ \E t \in Threads : EffortsStore(t)
    \/ \E n \in EffortNames : RescanEdit(n)
    \/ StartWorker
    \/ WatcherStart
    \/ WatcherWakes
    \/ Poll
    \/ WorkerGet
    \/ WorkerRefresh
    \/ WorkerDone

SpecRescan == InitBg /\ [][NextRescan]_vars

---------------------------------------------------------------------------
(* server.py: between initialize() and watcher.start()                     *)

\* A task file is saved by an editor after the full scan and before the
\* watcher has seeded its snapshot.
GapWrite(p, c) ==
    /\ initialized
    /\ watcher.pc = "off"
    /\ ExternalWrite(p, c)

\* main(): initialize(), start_worker() and watcher.start() follow one
\* another; the poll thread and the worker thread are scheduled.
GapFairness ==
    /\ WF_vars(StartWorker)
    /\ WF_vars(WatcherStart)
    /\ SyncFairness

NextGap ==
    \/ NextSync
    \/ \E p \in TaskPaths, c \in ExternalContents : GapWrite(p, c)

SpecGap == InitBg /\ [][NextGap]_vars /\ GapFairness

---------------------------------------------------------------------------
(* Vocabulary of the properties                                            *)

\* No call is in progress.
AtRest == initialized /\ \A t \in Threads : frame[t].pc \in {"idle", "done"}

\* Every cached task, as <<path, index in all_tasks order>>.
CachedTaskRefs ==
    UNION {{<<p, i>> : i \in 1..Len(all_tasks(files[p].tree))} : p \in DOMAIN files}

RefTask(r) == all_tasks(files[r[1]].tree)[r[2]]

\* The ids of a tree's tasks in all_tasks order.
IdSeq(tree) == [i \in 1..Len(all_tasks(tree)) |-> all_tasks(tree)[i].id]
TitleSeq(tree) == [i \in 1..Len(all_tasks(tree)) |-> all_tasks(tree)[i].title]

\* The id-index entries and the task rows that belong to a file.
EntriesOf(tbi, p) == {<<id, tbi[id].pos>> : id \in {x \in DOMAIN tbi : tbi[x].path = p}}
RowsOf(rows, p) == {r \in rows : r.file_path = p}

\* A call of the given kind has just finished on thread t, and no external
\* edit hit its file while it ran.
Finished(t, op) == frame[t].pc = "done" /\ frame[t].op = op /\ ~frame[t].ext

---------------------------------------------------------------------------
(* C1 *)

\* C1: Task ids are globally unique across the whole vault: whenever no call
\* is in progress, no two tasks of the cached files carry the same id.
C1_GlobalIdsUnique ==
    AtRest => \A r1, r2 \in CachedTaskRefs : r1 # r2 => RefTask(r1).id # RefTask(r2).id

---------------------------------------------------------------------------
(* C2 *)

\* C2: A reader (query_tasks, get_task, status) never observes a half-updated cache: what
\* it reads is the cache as the last completed call left it.
C2_ReadersSeeNoTornState == obs.kind # "none" => ~obs.torn

\* C2 witness: a reader has returned while a refresh_file call of another
\* thread was in progress (past its stat, waiting for the lock).
C2_Witness ==
    /\ obs.kind = "get_task"
    /\ \E t \in Threads : frame[t].pc = "rf_lock"

---------------------------------------------------------------------------
(* C3 *)

\* The tree, the index entries and the rows of file p are what parsing the
\* file's content on disk produces.
WriteThrough(p) ==
    /\ MapHas(files, p)
    /\ disk[p].exists
    /\ LET parsed == parse_content(disk[p].content) IN
       /\ files[p].tree = parsed
       /\ EntriesOf(tasks_by_id, p) = EntriesOf(IndexTree(EmptyMap, parsed, p), p)
       /\ RowsOf(db, p) = InsertSections({}, parsed.sections, p)

\* C3: After add_task or update_task has finished, whether it returned or
\* raised, and with no external edit in between, the cached tree, the index
\* entries and the rows of the mutated file equal what parsing the file's
\* current content on disk produces.
C3_WriteThroughAfterMutation ==
    \A t \in Threads :
        /\ frame[t].pc = "done"
        /\ frame[t].op \in {"add", "update"}
        /\ frame[t].path # <<>>
        /\ ~frame[t].ext
        => WriteThrough(frame[t].path)

---------------------------------------------------------------------------
(* C4 *)

\* A refresh_file call on a task file that existed when the call began has
\* just finished on thread t.
RefreshedExisting(t) ==
    /\ Finished(t, "refresh")
    /\ PathName(frame[t].path) \in TASK_FILE_NAMES
    /\ frame[t].pre.file.exists

\* C4: refresh_file on a cached path whose modification time on disk does
\* not exceed the recorded one re-parses nothing and changes nothing; on a
\* path whose modification time is greater, or that is not cached, it
\* re-parses: afterwards the cache holds the tasks of the new content (with
\* their explicit ids) and the index entries and rows of the path are those
\* of the new tree, so none of a removed task.
C4_RefreshFollowsMtime ==
    \A t \in Threads :
        RefreshedExisting(t) =>
            LET p == frame[t].path
                pre == frame[t].pre
                parsed == parse_content(pre.file.content)
            IN  IF MapHas(pre.cache.files, p) /\ pre.cache.files[p].mtime >= pre.file.mtime
                THEN /\ ~frame[t].loaded
                     /\ CacheState = pre.cache
                     /\ disk[p] = pre.file
                ELSE /\ frame[t].loaded
                     /\ MapHas(files, p)
                     /\ TitleSeq(files[p].tree) = TitleSeq(parsed)
                     /\ \A i \in 1..Len(IdSeq(parsed)) :
                            Truthy(IdSeq(parsed)[i]) => IdSeq(files[p].tree)[i] = IdSeq(parsed)[i]
                     /\ EntriesOf(tasks_by_id, p)
                            = EntriesOf(IndexTree(EmptyMap, files[p].tree, p), p)
                     /\ RowsOf(db, p) = InsertSections({}, files[p].tree.sections, p)

\* C4 witness: a refresh has re-parsed a cached file that was rewritten
\* outside the server, and the tasks it holds have changed.
C4_Witness ==
    \E t \in Threads :
        /\ RefreshedExisting(t)
        /\ frame[t].loaded
        /\ MapHas(frame[t].pre.cache.files, frame[t].path)
        /\ TitleSeq(frame[t].pre.cache.files[frame[t].path].tree)
              # TitleSeq(files[frame[t].path].tree)

---------------------------------------------------------------------------
(* C5 *)

\* C5: refresh_file is idempotent.  When a refresh_file call has finished
\* and the disk has not changed, a second call finds nothing to do: the path
\* is no task file, or it is absent from disk and from the cache, or it is
\* cached with a recorded modification time not below the file's, each of
\* which is the branch that changes neither cache nor disk.
C5_RefreshIdempotent ==
    \A t \in Threads :
        Finished(t, "refresh") /\ PathName(frame[t].path) \in TASK_FILE_NAMES =>
            LET p == frame[t].path IN
            IF disk[p].exists
            THEN MapHas(files, p) /\ files[p].mtime >= disk[p].mtime
            ELSE ~MapHas(files, p)

\* C5 witness: the refresh that has finished back-filled ids and rewrote
\* the file.
C5_Witness ==
    \E t \in Threads :
        Finished(t, "refresh") /\ frame[t].loaded /\ frame[t].rewrote

---------------------------------------------------------------------------
(* C6 *)

\* C6: refresh_file on a task-file path that no longer exists on disk leaves
\* no CachedFile, no id-index entry and no row of that path; if the path was
\* not cached the cache is left as it was.
C6_RefreshRemovesVanished ==
    \A t \in Threads :
        /\ Finished(t, "refresh")
        /\ PathName(frame[t].path) \in TASK_FILE_NAMES
        /\ ~frame[t].pre.file.exists
        => LET p == frame[t].path IN
           /\ ~MapHas(files, p)
           /\ EntriesOf(tasks_by_id, p) = {}
           /\ RowsOf(db, p) = {}
           /\ ~MapHas(frame[t].pre.cache.files, p) => CacheState = frame[t].pre.cache

\* C6 witness: a refresh has finished on a path that was cached, with
\* tasks, and had vanished from disk.
C6_Witness ==
    \E t \in Threads :
        /\ Finished(t, "refresh")
        /\ ~frame[t].pre.file.exists
        /\ MapHas(frame[t].pre.cache.files, frame[t].path)
        /\ EntriesOf(frame[t].pre.cache.tasks_by_id, frame[t].path) # {}

---------------------------------------------------------------------------
(* C7 *)

\* C7: Every id the back-fill assigns differs from the ids of all other
\* cached files, from the explicit ids of the file being loaded and from
\* the ids assigned earlier in the same load; after the load each task's id
\* equals its tags["id"].
C7_BackfillIdsAreFresh ==
    \A t \in Threads :
        /\ frame[t].pc = "upsert_write" /\ ~frame[t].ext
           => LET ids == frame[t].assigned
                  p == frame[t].path
              IN  /\ \A i, j \in 1..Len(ids) : i # j => ids[i] # ids[j]
                  /\ \A i \in 1..Len(ids) :
                       /\ ids[i] \notin TreeIds(parse_content(disk[p].content))
                       /\ \A q \in DOMAIN files \ {p} : ids[i] \notin TreeIds(files[q].tree)
        /\ frame[t].pc \in {"done", "scan"} /\ frame[t].loaded /\ frame[t].rewrote
           => \A i \in 1..Len(all_tasks(files[frame[t].path].tree)) :
                LET task == all_tasks(files[frame[t].path].tree)[i]
                IN  Truthy(task.id) /\ task.id = DictGet(task.tags, "id")

---------------------------------------------------------------------------
(* C8 *)

\* a is b with some elements left out.
RECURSIVE IsSubsequence(_, _)
IsSubsequence(a, b) ==
    IF a = <<>> THEN TRUE
    ELSE IF b = <<>> THEN FALSE
    ELSE IF Head(a) = Head(b) THEN IsSubsequence(Tail(a), Tail(b))
    ELSE IsSubsequence(a, Tail(b))

---------------------------------------------------------------------------
(* C9 *)

\* C9: A successful add_task returns the task held in the id index after
\* the reload, whose id was in no cached file and not in the index before
\* the call, with a created tag and the stub tag; get_task finds it and the
\* file on disk has a task line with its id and title.
C9_AddTaskReturnsReloadedTask ==
    \A t \in Threads :
        Finished(t, "add") /\ frame[t].ret.kind = "task" =>
            LET f == frame[t]
                id == f.arg_id
                content == disk[f.path].content
            IN  /\ f.ret.from_index
                /\ id \notin DOMAIN f.pre.cache.tasks_by_id
                /\ \A q \in DOMAIN f.pre.cache.files : id \notin TreeIds(f.pre.cache.files[q].tree)
                /\ DictHas(f.ret.task.tags, "created")
                /\ DictHas(f.ret.task.tags, "stub")
                /\ MapHas(tasks_by_id, id)
                /\ EntryTask(files, tasks_by_id[id]) = f.ret.task
                /\ \E i \in 1..Len(content) :
                     /\ content[i].kind = "task"
                     /\ content[i].text = f.ret.task.title
                     /\ DictGet(DictFromTokens(content[i].tags, <<>>), "id") = id

---------------------------------------------------------------------------
(* C10 *)

\* C10: add_task with a parent_id that names no task of the target file
\* reports the failure and writes nothing: the file on disk and the cache
\* are as before the call.
C10_UnknownParentRejected ==
    \A t \in Threads :
        /\ Finished(t, "add")
        /\ Truthy(frame[t].arg_parent)
        /\ \/ ~MapHas(frame[t].pre.cache.files, frame[t].path)
           \/ find_by_id(frame[t].pre.cache.files[frame[t].path].tree, frame[t].arg_parent) = <<>>
        => /\ frame[t].ret.kind # "task"
           /\ ~frame[t].wrote
           /\ disk[frame[t].path] = frame[t].pre.file
           /\ CacheState = frame[t].pre.cache

---------------------------------------------------------------------------
(* C11 *)

\* C11: update_task with an id that is not in the id index returns None: it
\* does not raise, writes no file, loads nothing and leaves the cache as it
\* was.
C11_UpdateUnknownIdReturnsNone ==
    \A t \in Threads :
        /\ frame[t].pc = "done"
        /\ frame[t].op = "update"
        /\ ~MapHas(frame[t].pre.cache.tasks_by_id, frame[t].arg_id)
        => /\ frame[t].ret = Result("None", NoTask, FALSE)
           /\ ~frame[t].wrote /\ ~frame[t].rewrote /\ ~frame[t].loaded
           /\ CacheState = frame[t].pre.cache

\* C11 witness: update_task has returned for an id the index does not hold,
\* while the index holds other tasks.
C11_Witness ==
    \E t \in Threads :
        /\ frame[t].pc = "done"
        /\ frame[t].op = "update"
        /\ ~MapHas(frame[t].pre.cache.tasks_by_id, frame[t].arg_id)
        /\ DOMAIN tasks_by_id # {}

---------------------------------------------------------------------------
(* C12 *)

\* C12: When the write_file call of add_task or update_task fails, the call
\* ends by raising: a call that found its task and did not get its write
\* done never returns a task or None, and a call that returns a task has
\* written the file.
C12_WriteFailurePropagates ==
    \A t \in Threads :
        /\ frame[t].pc = "done"
        /\ frame[t].op \in {"add", "update"}
        /\ frame[t].path # <<>>
        => /\ ~frame[t].wrote => frame[t].ret.kind = "raised"
           /\ frame[t].ret.kind = "task" => frame[t].wrote

\* C12 witness: add_task has ended after its write_file call failed.
C12_Witness ==
    \E t \in Threads :
        /\ frame[t].pc = "done"
        /\ frame[t].op = "add"
        /\ ~frame[t].wrote

---------------------------------------------------------------------------
(* C13 *)

\* C13: Id generation always terminates: a call that is in the id loop of
\* add_task leaves the loop (with an id, or with a fatal error after a
\* bounded number of retries), even when the generated candidates collide.
C13_IdGenerationTerminates ==
    \A t \in Threads : (frame[t].pc = "gen") ~> (frame[t].pc # "gen")


---------------------------------------------------------------------------
(* The background pipeline                                                 *)

\* C14: the worker alone takes from the queue, in the order of the puts and
\* one entry at a time: what it has taken, followed by what is still
\* queued, is exactly what was put (nothing is dropped, merged or
\* reordered), and the refresh under way is the refresh of the entry taken
\* last.
C14_WorkerIsFifo ==
    /\ worker.log \o queue = enqueued
    /\ worker.pc = "call" => worker.item = worker.log[Len(worker.log)]
    /\ frame["worker"].pc # "idle" =>
          /\ worker.pc = "call"
          /\ frame["worker"].path = worker.item

\* The same path was put twice and taken twice, more is waiting.
C14_Witness ==
    /\ Len(worker.log) >= 2
    /\ worker.log[1] = worker.log[2]
    /\ queue # <<>>
    /\ frame["worker"].pc = "done"


\* The worker took the sentinel.
SentinelTaken == \E i \in 1..Len(worker.log) : worker.log[i] = StopItem

\* C15: a refresh that raises does not stop the worker: it is back at the
\* queue with the entries behind the failed one still waiting in order, and
\* from some point on everything that was put before the sentinel has been
\* taken.
C15_FailureIsIsolated ==
    /\ [](worker.raised > 0 /\ ~SentinelTaken => worker.pc \in {"get", "call"})
    /\ <>[](worker.pc = "off" \/ SentinelTaken \/ queue = <<>>)

\* A refresh has raised, and an entry put behind it has been refreshed.
C15_Witness ==
    /\ worker.raised > 0
    /\ Len(worker.log) >= 2
    /\ frame["worker"].pc = "done"
    /\ frame["worker"].op = "refresh"
    /\ frame["worker"].loaded


\* C16: the worker has left its loop exactly when it has taken the
\* sentinel: by then it has taken and finished everything that was put
\* before the sentinel, the sentinel is the last thing it ever takes (what
\* was put behind it stays on the queue), and a worker that has not taken
\* a sentinel is still in its loop.
C16_StopsExactlyAtSentinel ==
    /\ worker.pc = "stopped" <=> SentinelTaken
    /\ SentinelTaken =>
          /\ worker.log[Len(worker.log)] = StopItem
          /\ worker.log = SubSeq(enqueued, 1, Len(worker.log))
          /\ queue = SubSeq(enqueued, Len(worker.log) + 1, Len(enqueued))
          /\ frame["worker"].pc = "idle"

\* The worker stopped after refreshing an entry, and an entry that was put
\* behind the sentinel is left on the queue.
C16_Witness ==
    /\ worker.pc = "stopped"
    /\ Len(worker.log) >= 2
    /\ queue # <<>>


LastPutPaths == SelectSeq(watcher.last.put, LAMBDA x : x # EffortsPath)

C19_PollErrorIsCaught ==
    /\ watcher.pc = "stopped" => watcher.stop
    /\ watcher.failed > 0 /\ ~watcher.stop => watcher.pc \in {"waiting", "polling"}

\* After a cycle that raised, the next cycle ran and found a change.
C19_Witness ==
    /\ watcher.failed > 0
    /\ watcher.last.ok
    /\ watcher.last.put # <<>>
    /\ ~watcher.stop


\* The effort re-scan requests of the watcher's last cycle.
LastPutScans == SelectSeq(watcher.last.put, LAMBDA x : x = EffortsPath)

\* C20: a poll cycle that ran to its end has enqueued one effort re-scan
\* and stored the new signal if the signal it computed differs from the
\* stored one, and has enqueued none if it is the same; the worker's call
\* for that request only replaces the effort map by a scan of the efforts
\* directory (every directory with a marker that is not skipped): it goes
\* through no step of a file refresh and leaves file map, id index and rows
\* as they were.
C20_EffortSignalTriggersRescan ==
    /\ watcher.last.ok =>
          /\ Len(LastPutScans) =
                IF watcher.last.cur_eff # watcher.last.prior_eff THEN 1 ELSE 0
          /\ watcher.efforts_mtime = watcher.last.cur_eff
    /\ LET f == frame["worker"] IN
       f.pc # "idle" /\ f.path = EffortsPath =>
          /\ f.op = "efforts"
          /\ f.pc \in {"ef_store", "done"}
          /\ ~f.loaded /\ ~f.wrote /\ ~f.rewrote
          /\ CacheState = f.pre.cache
          /\ f.pc = "done" =>
                /\ efforts = f.discovered
                /\ ~f.ext =>
                      /\ DOMAIN efforts =
                            {n \in EffortNames : effdisk[n].marker} \ {"__ideas"}
                      /\ \A n \in DOMAIN efforts : efforts[n] = "active"

\* The watcher saw the signal change and the worker's re-scan has replaced
\* the effort map: the effort whose marker was removed is gone from it.
C20_Witness ==
    /\ watcher.last.ok
    /\ frame["worker"].pc = "done"
    /\ frame["worker"].op = "efforts"
    /\ efforts = EmptyMap
    /\ files # EmptyMap


\* C21: the watcher goes from waiting to a poll cycle and back until stop()
\* is called. Once the stop event is set no cycle is begun; when the cycle
\* that was under way (if any) has ended the watcher puts nothing on the
\* queue any more; and the thread ends.
C21_StopEndsWatcher ==
    /\ [][watcher.stop =>
             /\ watcher'.stop
             /\ watcher.pc # "polling" =>
                   /\ watcher'.pc \in {"waiting", "stopped"}
                   /\ watcher'.polls = watcher.polls
                   /\ enqueued' = enqueued]_vars
    /\ [](watcher.pc = "stopped" => watcher.stop)
    /\ watcher.stop ~> (watcher.pc = "stopped")

\* stop() was called while the second cycle, with a change to find, was
\* under way.
C21_Witness ==
    /\ watcher.stop
    /\ watcher.pc = "polling"
    /\ watcher.polls = 1
    /\ Changed(watcher.known_files, _snapshot_task_files(disk)) # <<>>


---------------------------------------------------------------------------
(* Queries                                                                 *)

\* Every cached task, as the file it is in and its position in the tree.
CachedPositions ==
    UNION {{[path |-> p, pos |-> ps] :
               ps \in {all_positions(files[p].tree)[i] :
                          i \in 1..Len(all_positions(files[p].tree))}} :
           p \in DOMAIN files}

PosTask(r) == TaskAt(files[r.path].tree, r.pos)

\* The id of the task a task is a direct child of, or None for a root task.
ParentIdOf(r) ==
    IF Len(r.pos) > 2
    THEN TaskAt(files[r.path].tree, SubSeq(r.pos, 1, Len(r.pos) - 1)).id
    ELSE NoneVal

\* One is below the other in the same tree.
IsDescendant(d, r) ==
    /\ d.path = r.path
    /\ Len(d.pos) > Len(r.pos)
    /\ SubSeq(d.pos, 1, Len(r.pos)) = r.pos

\* The cached tasks that satisfy the filters of a query.
Satisfying(status, parent_id) ==
    {r \in CachedPositions :
        /\ Truthy(status) => PosTask(r).status = status
        /\ Truthy(parent_id) => ParentIdOf(r) = parent_id}

\* The tasks a query returned.
Returned == {[path |-> obs.tasks[i].path, pos |-> obs.tasks[i].pos] :
                i \in 1..Len(obs.tasks)}

ReturnedOnce ==
    \A i, j \in 1..Len(obs.tasks) :
        obs.tasks[i].path = obs.tasks[j].path /\ obs.tasks[i].pos = obs.tasks[j].pos
            => i = j

\* C22: a query returns no task twice; with include_subtasks it returns
\* the cached tasks that satisfy the filters and all their descendants,
\* whether these satisfy the filters or not; without it, exactly the cached
\* tasks that satisfy the filters.
C22_QueryExpandsDescendants ==
    obs.kind = "query" =>
        LET m == Satisfying(obs.arg.status, obs.arg.parent_id)
        IN /\ ReturnedOnce
           /\ Returned =
                 IF obs.arg.include_subtasks
                 THEN m \cup {d \in CachedPositions : \E r \in m : IsDescendant(d, r)}
                 ELSE m

\* Every cached task is indexed under its id at its own position and has
\* its own row.
IndexConsistent ==
    \A r \in CachedPositions :
        /\ MapHas(tasks_by_id, PosTask(r).id)
        /\ tasks_by_id[PosTask(r).id] = r
        /\ \E row \in db : /\ row.id = PosTask(r).id
                            /\ row.file_path = r.path
                            /\ row.status = PosTask(r).status
                            /\ row.parent_id = ParentIdOf(r)

\* The same for the queries made while the index is consistent.
QueryExpandsOnConsistentIndex ==
    obs.kind = "query" /\ IndexConsistent => C22_QueryExpandsDescendants

\* C23: a query by parent id alone returns exactly the direct children of
\* the task with that id: all of them, no grandchild and no unrelated task,
\* and nothing when that task has no children.
C23_ParentIdGivesDirectChildren ==
    /\ obs.kind = "query"
    /\ Truthy(obs.arg.parent_id)
    /\ ~Truthy(obs.arg.status)
    /\ ~obs.arg.include_subtasks
    => /\ ReturnedOnce
       /\ Returned = {r \in CachedPositions : ParentIdOf(r) = obs.arg.parent_id}

QueryByParentOnConsistentIndex ==
    obs.kind = "query" /\ IndexConsistent => C23_ParentIdGivesDirectChildren



---------------------------------------------------------------------------
(* C24 *)

HasCompleted(task) == DictHas(task.tags, "completed")

\* The task a finished update_task was about, as the file on disk has it.
OnDiskTask(t) ==
    LET e == tasks_by_id[frame[t].arg_id]
    IN TaskAt(parse_content(disk[e.path].content), e.pos)

\* C24: after every status update of a sequence of status updates, the task
\* has a completed tag exactly when its status is done, in the task
\* update_task returns and in the file on disk.
C24_CompletedFollowsStatus ==
    \A t \in Callers :
        Finished(t, "update") /\ frame[t].ret.kind = "task" =>
            /\ frame[t].ret.task.status = "done" <=> HasCompleted(frame[t].ret.task)
            /\ OnDiskTask(t).id = frame[t].arg_id
            /\ OnDiskTask(t).status = frame[t].ret.task.status
            /\ OnDiskTask(t).status = "done" <=> HasCompleted(OnDiskTask(t))

\* A second status update has taken the completion date, stamped by the
\* first one, away again.
C24_Witness ==
    /\ Finished("caller", "update")
    /\ frame["caller"].ret.kind = "task"
    /\ mutations = 2
    /\ frame["caller"].ret.task.status = "in-progress"
    /\ ~HasCompleted(OnDiskTask("caller"))
    /\ LET pre == frame["caller"].pre.cache
           was == EntryTask(pre.files, pre.tasks_by_id[frame["caller"].arg_id])
       IN was.status = "done" /\ DictGet(was.tags, "completed") = Today


---------------------------------------------------------------------------
(* C25, C26, C27: parse_file and write_file                                *)

\* The write that has just been made was the n-th or a later one of a file
\* that is parsed and written back over and over.
WrittenBack(t, n) == frame[t].op = "parse" /\ frame[t].pc = "idle" /\ mutations >= n

\* The file has been written back and parsed again.
Reparsed(t) == frame[t].op = "parse" /\ frame[t].pc = "parsed" /\ mutations >= 1

\* C25: serialization reaches a fixed point after one pass: once a file has
\* been parsed and written back, parsing it and writing it back again
\* leaves its text as it is.
C25_SerializeIsIdempotent ==
    \A t \in Callers :
        WrittenBack(t, 2) => disk[frame[t].path].content = frame[t].pre.file.content

\* The ids, titles, statuses and nesting of a list of tasks.
RECURSIVE OutlineOfTasks(_)
OutlineOfTasks(tasks) ==
    [i \in 1..Len(tasks) |->
        [id |-> tasks[i].id, title |-> tasks[i].title, status |-> tasks[i].status,
         children |-> OutlineOfTasks(tasks[i].children)]]

\* The section headings of a tree in order, each with its tasks' outline.
Outline(tree) ==
    [i \in 1..Len(tree.sections) |->
        [heading |-> tree.sections[i].heading,
         tasks |-> OutlineOfTasks(tree.sections[i].tasks)]]

\* C26: the tree parsed from the text written for a parsed tree has the
\* same task ids, titles, statuses, nesting and section headings, in the
\* same order, as that tree.
C26_RoundTripKeepsOutline ==
    \A t \in Callers :
        Reparsed(t) =>
            Outline(frame[t].tree) = Outline(parse_content(frame[t].pre.file.content))

\* The line written for a task.
LineOf(task) == SerializeTasks(<<[task EXCEPT !.notes = <<>>, !.children = <<>>]>>, 0)[1]

TagSet(task) == {task.tags[i] : i \in 1..Len(task.tags)}

\* C27: two tasks with the same title, status and set of tag keys and values
\* are written as the same line, whatever the order in which their tags
\* were inserted.
C27_TagOrderIsCanonical ==
    \A t \in Callers :
        frame[t].op = "parse" /\ frame[t].pc = "parsed" =>
            \A i, j \in 1..Len(all_tasks(frame[t].tree)) :
                LET a == all_tasks(frame[t].tree)[i]
                    b == all_tasks(frame[t].tree)[j]
                IN  a.title = b.title /\ a.status = b.status /\ TagSet(a) = TagSet(b)
                        => LineOf(a) = LineOf(b)


---------------------------------------------------------------------------
(* C28 *)

\* The task lines of the body of a text, as 1-based line indices.
BodyTaskLines(lines) ==
    {i \in (extract_frontmatter(lines)[2] + 1)..Len(lines) : lines[i].kind = "task"}

BodyHeadings(lines) ==
    {i \in (extract_frontmatter(lines)[2] + 1)..Len(lines) : lines[i].kind = "heading"}

LevelOf(line) == indent_level(line.tabs, line.spaces)

\* The nearest task line before line i, with no heading in between, whose
\* indent level is strictly smaller; 0 when there is none.
NearestShallower(lines, i) ==
    LET c == {j \in BodyTaskLines(lines) :
                 /\ j < i
                 /\ LevelOf(lines[j]) < LevelOf(lines[i])
                 /\ \A k \in BodyHeadings(lines) : ~(j < k /\ k < i)}
    IN  IF c = {} THEN 0 ELSE CHOOSE j \in c : \A k \in c : k <= j

\* The index of the section that is current at line i: one per heading so
\* far, after the implicit section of the tasks that precede every heading.
SectionAt(lines, i) ==
    LET hs == {k \in BodyHeadings(lines) : k < i}
        implicit == \E j \in BodyTaskLines(lines) : \A k \in BodyHeadings(lines) : j < k
    IN  Cardinality(hs) + (IF implicit THEN 1 ELSE 0)

\* The line of the task at a position, and of the task it is a child of.
LineAt(tree, pos) == TaskAt(tree, pos).line_number + 1
ParentLineAt(tree, pos) ==
    IF Len(pos) > 2 THEN LineAt(tree, SubSeq(pos, 1, Len(pos) - 1)) ELSE 0

\* C28: in a parsed tree every task line of the text is one task; the task
\* is a child of the nearest preceding task of its section with a strictly
\* smaller indent level, or a root task of the section current at its line
\* when there is none, so that no task is a child of a task of an earlier
\* section.
C28_ParentByIndentStack ==
    \A t \in Callers :
        frame[t].op = "parse" /\ frame[t].pc = "parsed" =>
            LET lines == disk[frame[t].path].content
                tree == frame[t].tree
                ps == all_positions(tree)
            IN  /\ {LineAt(tree, ps[n]) : n \in 1..Len(ps)} = BodyTaskLines(lines)
                /\ Len(ps) = Cardinality(BodyTaskLines(lines))
                /\ \A n \in 1..Len(ps) :
                      /\ ParentLineAt(tree, ps[n]) = NearestShallower(lines, LineAt(tree, ps[n]))
                      /\ ps[n][1] = SectionAt(lines, LineAt(tree, ps[n]))

\* A task at level 2 and then a task at level 1 are both children of the
\* task at level 0 before them: the deeper one was popped.
C28_Witness ==
    /\ frame["caller"].op = "parse"
    /\ frame["caller"].pc = "parsed"
    /\ \E n \in 1..Len(all_positions(frame["caller"].tree)) :
          LET pos == all_positions(frame["caller"].tree)[n]
              task == TaskAt(frame["caller"].tree, pos)
          IN  /\ Len(pos) = 2
              /\ Len(task.children) = 2
              /\ task.children[1].indent_level = 2
              /\ task.children[2].indent_level = 1


---------------------------------------------------------------------------
(* C29 *)

\* The names of the directories that have the marker, at any depth below a
\* directory.
RECURSIVE MarkedBelow(_)
MarkedBelow(d) ==
    UNION {(IF d.dirs[n].marker THEN {n} ELSE {}) \cup MarkedBelow(d.dirs[n]) :
              n \in DOMAIN d.dirs}

BacklogMarked ==
    IF _BACKLOG_DIR \in DOMAIN effdisk THEN MarkedBelow(effdisk[_BACKLOG_DIR]) ELSE {}

ActiveMarked ==
    {n \in DOMAIN effdisk \ (_SKIP_NAMES \cup {_BACKLOG_DIR}) : effdisk[n].marker}

Scanned(t) == frame[t].op = "scan" /\ frame[t].pc \in {"scanned", "done"}

\* C29: a scan classifies every directory with the marker anywhere beneath
\* the backlog directory as backlog and every directory with the marker
\* directly under the efforts root as active, and returns nothing else:
\* no directory without the marker and none of the skipped names.
C29_ScanClassifiesByPlace ==
    \A t \in Callers :
        Scanned(t) =>
            LET r == frame[t].discovered
            IN  /\ \A n \in BacklogMarked : n \in DOMAIN r /\ r[n] = "backlog"
                /\ \A n \in ActiveMarked : n \in DOMAIN r /\ r[n] = "active"
                /\ DOMAIN r = BacklogMarked \cup ActiveMarked

\* No directory with the marker lies inside another one, and no two of them
\* have the same name.
RECURSIVE NoEffortInsideEffort(_)
NoEffortInsideEffort(d) ==
    \A n \in DOMAIN d.dirs :
        IF d.dirs[n].marker THEN MarkedBelow(d.dirs[n]) = {}
        ELSE NoEffortInsideEffort(d.dirs[n])

RECURSIVE MarkedCount(_)
MarkedCount(d) ==
    LET ns == SortedNames(DOMAIN d.dirs)
        Sum[i \in 0..Len(ns)] ==
            IF i = 0 THEN 0
            ELSE Sum[i - 1] + (IF d.dirs[ns[i]].marker THEN 1 ELSE 0)
                         + MarkedCount(d.dirs[ns[i]])
    IN  Sum[Len(ns)]

EffortsApart ==
    /\ BacklogMarked \cap ActiveMarked = {}
    /\ _BACKLOG_DIR \in DOMAIN effdisk =>
          /\ NoEffortInsideEffort(effdisk[_BACKLOG_DIR])
          /\ MarkedCount(effdisk[_BACKLOG_DIR]) = Cardinality(BacklogMarked)

\* The same for the trees in which the efforts lie apart and have distinct
\* names.
ScanClassifiesEffortsApart ==
    EffortsApart => C29_ScanClassifiesByPlace


---------------------------------------------------------------------------
(* C30 *)

\* The step in which the load a call makes ends without the file having
\* been stored, the file not having been read.
LoadFails(t) ==
    /\ frame[t].pc \in {"load_stat", "load_read"}
    /\ frame'[t].pc \notin {"load_stat", "load_read", "upsert_write"}
    /\ ~frame'[t].loaded

\* C30: a load that fails because the file cannot be read leaves the cached
\* files, the id index and the rows as they were, and nothing is raised:
\* the full scan goes on to its next file, every other call returns.
C30_FailedLoadKeepsCache ==
    [][\A t \in Threads :
          LoadFails(t) =>
              /\ files' = files
              /\ tasks_by_id' = tasks_by_id
              /\ db' = db
              /\ frame'[t].ret.kind # "raised"
              /\ frame'[t].pc = (IF frame[t].op = "init" THEN "scan" ELSE "done")]_vars

\* A refresh of a file that is on disk, newer than the cached one and with
\* another text, has returned without loading it: the cache has the file
\* as it was loaded last.
C30_Witness ==
    LET f == frame["caller"]
    IN  /\ f.op = "refresh"
        /\ f.pc = "done"
        /\ ~f.loaded
        /\ ~f.ext
        /\ disk[f.path].exists
        /\ MapHas(files, f.path)
        /\ files[f.path].mtime < disk[f.path].mtime
        /\ serialize(files[f.path].tree) # disk[f.path].content
        /\ EntriesOf(tasks_by_id, f.path) # {}
        /\ RowsOf(db, f.path) # {}

---------------------------------------------------------------------------
(* C31 *)

\* The task lines of the file at p that carry the blocking-dependency
\* marker followed by an id.
MarkerValue(line) ==
    LET hits == {j \in 1..Len(line.tags) :
                    /\ Len(line.tags[j]) = 2
                    /\ line.tags[j][1] = "b"
                    /\ line.tags[j][2] # ""}
    IN  IF hits = {} THEN NoneVal ELSE line.tags[CHOOSE j \in hits : TRUE][2]

MarkedLines(p) ==
    {i \in 1..Len(disk[p].content) :
        /\ disk[p].content[i].kind = "task"
        /\ MarkerValue(disk[p].content[i]) # NoneVal}

LineId(line) == DictGet(DictFromTokens(TokenPairs(line.tags), <<>>), "id")

\* The file at p is cached as it is on disk, and no call is under way.
LoadedAsOnDisk(p) ==
    /\ initialized
    /\ lock = NoneVal
    /\ disk[p].exists
    /\ MapHas(files, p)
    /\ files[p].tree = parse_content(disk[p].content)

\* The cached task with the given id, in the file at p.
CachedTask(p, id) == TaskAt(files[p].tree, find_by_id(files[p].tree, id))

\* The task of a marked line is blocked by the id after the marker, and a
\* query for the blocked tasks that has just been made returned it.
MarkedIsBlocked ==
    \A p \in TaskPaths :
        LoadedAsOnDisk(p) =>
            \A i \in MarkedLines(p) :
                LET line == disk[p].content[i]
                    task == CachedTask(p, LineId(line))
                    ids == blocking_ids(task)
                IN  /\ is_blocked(task)
                    /\ \E k \in 1..Len(ids) : ids[k] = MarkerValue(line)
                    /\ (obs.kind = "query_blocked" /\ obs.arg = TRUE) => LineId(line) \in obs.ids

\* update_task(id, unblock=[b]) on a task whose only blocker is b leaves it
\* not blocked.
UnblockUnblocks ==
    \A t \in Callers, id \in BlockedIds, b \in BlockerIds :
        (/\ MapHas(tasks_by_id, id)
         /\ UpdateBlockers(t, id, [NoChanges EXCEPT !.unblock = <<b>>]))
            => LET entry == tasks_by_id[id]
               IN  ~is_blocked(TaskAt(files'[entry.path].tree, entry.pos))

\* C31: a task whose line carries the blocking-dependency marker followed by
\* an id is blocked after parsing and after a full scan: is_blocked is true,
\* blocking_ids contains the id, query_tasks(blocked=True) returns the task,
\* and update_task(unblock=[the id]) makes it not blocked.
C31_MarkedTaskIsBlocked == []MarkedIsBlocked /\ [][UnblockUnblocks]_vars

\* The same with the dependency written "#blocked:<id>": the tag key that
\* is_blocked and blocking_ids read.
HashBlockedLines(p) ==
    {i \in 1..Len(disk[p].content) :
        /\ disk[p].content[i].kind = "task"
        /\ \E j \in 1..Len(disk[p].content[i].tags) :
              disk[p].content[i].tags[j] = <<"blocked", "a1">>}

HashBlockedIsBlocked ==
    \A p \in TaskPaths :
        LoadedAsOnDisk(p) =>
            \A i \in HashBlockedLines(p) :
                LET line == disk[p].content[i]
                    task == CachedTask(p, LineId(line))
                IN  /\ is_blocked(task)
                    /\ blocking_ids(task) = <<"a1">>
                    /\ (obs.kind = "query_blocked" /\ obs.arg = TRUE) => LineId(line) \in obs.ids

---------------------------------------------------------------------------
(* C32 *)

\* A tree without the line numbers of its tasks.
RECURSIVE WithoutLineNumbers(_)
WithoutLineNumbers(tasks) ==
    [i \in 1..Len(tasks) |->
        [tasks[i] EXCEPT !.line_number = 0,
                         !.children = WithoutLineNumbers(tasks[i].children)]]

TasksOfTree(tree) ==
    [tree EXCEPT !.sections =
        [i \in 1..Len(tree.sections) |->
            [tree.sections[i] EXCEPT !.tasks = WithoutLineNumbers(tree.sections[i].tasks)]]]

\* The cache has the file at p as it is on disk: its tree is the parse of
\* the text on disk (line numbers aside), or the path is absent when the
\* file is gone.
Reflected(p) ==
    IF disk[p].exists
    THEN /\ MapHas(files, p)
         /\ TasksOfTree(files[p].tree) = TasksOfTree(parse_content(disk[p].content))
    ELSE ~MapHas(files, p)

\* When the watcher starts, and as long as nothing has been changed since,
\* every path is reflected: what is not reflected later was changed while
\* the watcher ran.
ReflectedBeforeChanges ==
    (watcher.pc # "off" /\ edits = 0) => \A p \in TaskPaths : Reflected(p)

\* C32: with the watcher and the worker scheduled, the external changes
\* made to the task files while the watcher runs are reflected in the cache
\* in the end: from some point on the cached tree of every path is the
\* parse of the text on disk, and a path whose file is gone is absent.
C32_EventuallyConsistent ==
    <>(watcher.pc # "off") => <>[](\A p \in TaskPaths : Reflected(p))

---------------------------------------------------------------------------
(* C33 *)

\* How often the path stands in the queue.
TimesQueued(q, p) == Cardinality({i \in 1..Len(q) : q[i] = p})

\* What a poll cycle has to see to enqueue p: the file is new, its
\* modification time is greater than the known one, or the file is gone.
PollSeesChange(p) ==
    /\ watcher.pc = "polling"
    /\ IF p \in DOMAIN watcher.known_files
       THEN ~disk[p].exists \/ disk[p].mtime > watcher.known_files[p]
       ELSE disk[p].exists

\* A path gets on the queue only in a poll cycle that sees it changed: no
\* step of the worker, failed or not, puts it back.
EnqueuedByPollOnly ==
    \A p \in TaskPaths :
        TimesQueued(queue', p) > TimesQueued(queue, p) => PollSeesChange(p)

\* C33: a refresh the worker has begun ends (it returns or it raises and
\* the worker goes on); no path is put on the queue except by a poll cycle
\* that sees its file new, newer or gone, so a failed refresh is not
\* repeated by itself; and a path on the queue is taken by the worker and
\* its refresh attempted.
C33_FailedRefreshWaitsForPoll ==
    /\ [][EnqueuedByPollOnly]_vars
    /\ (worker.pc = "call") ~> (worker.pc = "get")
    /\ \A p \in TaskPaths :
          (TimesQueued(queue, p) > 0) ~> (worker.pc = "call" /\ worker.item = p)

\* The refresh of the path raised, the file was changed again, the next
\* poll cycle enqueued the path, and the worker is at its second refresh.
C33_Witness ==
    /\ worker.raised = 1
    /\ worker.log = <<P1, P1>>
    /\ enqueued = <<P1, P1>>
    /\ worker.pc = "call"
    /\ worker.item = P1
    /\ frame["worker"].pc \in {"rf_lock", "rf_remove"}

---------------------------------------------------------------------------
(* C34 *)

\* The ids the id index knows, the ids of the rows, the ids of the tasks of
\* the cached trees.
IndexIds == DOMAIN tasks_by_id
RowIds == {r.id : r \in db} \ {""}
CachedTreeIds == UNION {TreeIds(files[p].tree) : p \in DOMAIN files}

\* C34: whenever no cache operation holds the lock (the start-up scan being
\* over), the id index, the rows and the cached trees have the same ids, and
\* every id of the index refers to a cached file whose tree has a task with
\* that id.
C34_IndexesAgree ==
    (initialized /\ lock = NoneVal) =>
        /\ IndexIds = RowIds
        /\ RowIds = CachedTreeIds
        /\ \A id \in IndexIds :
              /\ MapHas(files, tasks_by_id[id].path)
              /\ id \in TreeIds(files[tasks_by_id[id].path].tree)

---------------------------------------------------------------------------
(* C35 *)

\* A refresh_file call on a task file has just finished on thread t: it
\* reloaded the file, removed it, or found it up to date.
RefreshedTaskFile(t) ==
    /\ frame[t].pc = "done"
    /\ frame[t].op = "refresh"
    /\ PathName(frame[t].path) \in TASK_FILE_NAMES

\* C35: refreshing, reloading or removing the file P leaves the id-index
\* entries and the rows of every other cached file Q as they were when the
\* call took the lock, also when P and Q hold a task with the same id.
C35_OtherFilesUntouched ==
    \A t \in Threads :
        RefreshedTaskFile(t) =>
            \A q \in TaskPaths \ {frame[t].path} :
                /\ EntriesOf(tasks_by_id, q) = EntriesOf(frame[t].pre.cache.tasks_by_id, q)
                /\ RowsOf(db, q) = RowsOf(frame[t].pre.cache.db, q)

---------------------------------------------------------------------------
(* C36 *)

\* The modification time recorded for the cached file at p is the one the
\* file has on disk.
RecordedIsOnDisk(p) ==
    /\ MapHas(files, p)
    /\ disk[p].exists
    /\ files[p].mtime = disk[p].mtime

\* A call that wrote its file (a mutation, an id back-fill) and loaded it,
\* with no editor saving the file meanwhile, ends with the on-disk
\* modification time recorded.
SelfWriteRecorded ==
    \A t \in Threads :
        /\ frame[t].pc # "done"
        /\ frame'[t].pc = "done"
        /\ frame'[t].wrote \/ frame'[t].rewrote
        /\ frame'[t].loaded
        /\ ~frame'[t].ext
        => RecordedIsOnDisk(frame[t].path)'

\* The worker's refresh of a file whose recorded modification time is the
\* on-disk one ends at once: nothing is read, written, stored or enqueued.
NoSecondParse ==
    /\ frame["worker"].pc = "rf_lock"
    /\ frame'["worker"].pc # "rf_lock"
    /\ RecordedIsOnDisk(frame["worker"].path)
    => /\ frame'["worker"].pc = "done"
       /\ ~frame'["worker"].loaded
       /\ UNCHANGED <<cacheVars, diskVars, queue, enqueued>>

\* Every put on the queue answers a write of its own: the editor's save, the
\* id back-fill that follows it, or the mutation's write.
NoRefreshLoop == Len(enqueued) <= 2 * edits + mutations

\* C36: after the cache itself writes a file (id back-fill, add_task,
\* update_task) the recorded modification time equals the on-disk one, the
\* refresh the watcher enqueues for that path is a no-op in the worker, and
\* write -> poll -> refresh never loops.
C36_SelfWriteNoSecondParse ==
    /\ [][SelfWriteRecorded /\ NoSecondParse]_vars
    /\ []NoRefreshLoop

\* The worker has found the file written by a mutation up to date: the
\* single put on the queue was for that write.
C36_Witness ==
    /\ mutations = 1
    /\ edits = 0
    /\ enqueued = <<P1>>
    /\ worker.log = <<P1>>
    /\ frame["worker"].pc = "done"
    /\ frame["worker"].op = "refresh"
    /\ ~frame["worker"].loaded
    /\ RecordedIsOnDisk(P1)
    /\ frame["caller"].pc = "idle"

---------------------------------------------------------------------------
(* C37 *)

\* The titles of the task lines of a file text, the task with the id skip
\* left out.
TaskTitles(content, skip) ==
    {content[i].text : i \in {j \in 1..Len(content) :
                                 /\ content[j].kind = "task"
                                 /\ LineId(content[j]) = NoneVal \/ LineId(content[j]) # skip}}

\* Thread t is about to write the file of its add_task or update_task, and
\* the file on disk is newer than what the cache loaded of it.
WritesOverNewerFile(t) ==
    /\ frame[t].pc = "mut_write"
    /\ frame'[t].pc = "load_stat"
    /\ MapHas(frame[t].pre.cache.files, frame[t].path)
    /\ disk[frame[t].path].exists
    /\ files[frame[t].path].mtime < disk[frame[t].path].mtime

\* C37: when a file was edited externally after the cache last loaded it
\* and has not been refreshed, the content an add_task or update_task
\* writes to it still holds the tasks of the external edit (the task being
\* updated apart).
C37_NoLostExternalEdit ==
    [][\A t \in Callers :
          WritesOverNewerFile(t) =>
              TaskTitles(disk[frame[t].path].content, frame[t].arg_id)
                  \subseteq TaskTitles(disk'[frame[t].path].content, frame[t].arg_id)]_vars

---------------------------------------------------------------------------
(* C38 *)

\* refresh_file would find the cached file at p up to date against the
\* file on disk.
TreatedAsUpToDate(p) ==
    /\ MapHas(files, p)
    /\ disk[p].exists
    /\ UpToDate(files, p, disk[p].mtime)

\* C38: outside the calls that hold the lock, a cached file whose recorded
\* modification time is not older than the one on disk has the parse of
\* the text on disk as its tree (line numbers aside), however the saves of
\* an editor fall between the stat, the read and the write-back of a load.
C38_MtimeNotAheadOfContent ==
    lock = NoneVal =>
        \A p \in TaskPaths :
            TreatedAsUpToDate(p) =>
                TasksOfTree(files[p].tree) = TasksOfTree(parse_content(disk[p].content))

---------------------------------------------------------------------------
(* C39 *)

\* A refresh_efforts call has just finished on thread t.
RescanFinished(t) == frame[t].pc = "done" /\ frame[t].op = "efforts"

\* The scan of thread t started after the scan of thread u: an effort
\* directory was changed after u scanned and none since t scanned.
ScannedLater(t, u) == ~frame[t].ext /\ frame[u].ext

\* C39: when the refresh_efforts calls of the worker and of a caller have
\* both finished, the effort map is the result of the scan that started
\* last, not the older scan's.
C39_NewestScanWins ==
    \A t \in Threads, u \in Threads :
        /\ t # u
        /\ RescanFinished(t)
        /\ RescanFinished(u)
        /\ ScannedLater(t, u)
        => efforts = frame[t].discovered

---------------------------------------------------------------------------
(* C40 *)

\* The file at p was changed after the full scan and before the watcher
\* was started, and the cache has not taken the change in.
ChangedInStartupGap(p) ==
    /\ initialized
    /\ watcher.pc = "off"
    /\ edits = 1
    /\ ~Reflected(p)

\* C40: a task file changed on disk after initialize has scanned it and
\* before the watcher seeds its first snapshot is refreshed in the cache
\* in the end, without a further edit.
C40_NoStartupGap ==
    \A p \in TaskPaths :
        ChangedInStartupGap(p) ~> (Reflected(p) \/ edits > 1)

====
